---- MODULE Spec2Model ----
(***************************************************************************)
(* A model of the parametric library: the typed params object             *)
(* (parametric/_base_params.py, parametric/_base_params2.py), the         *)
(* TypeNode coercion engine (parametric/_type_node.py) and the binary     *)
(* codec (parametric/_msgpack.py).                                         *)
(*                                                                         *)
(* Python values are records [k, n, x, s, c, e]:                           *)
(*   k  the kind ("none", "bool", "int", "float", "str", "bytes", "path",  *)
(*      "tuple", "list", "set", "dict", "item", "enum", "ref", ...)        *)
(*   n  the integer payload (int value, bool as 0/1, float mantissa,       *)
(*      object id of a reference)                                          *)
(*   x  the binary exponent of a float (value = n * 2^x, n odd or 0)       *)
(*   s  a name (key of a dict item that names a field)                     *)
(*   c  code points of a str / path, or the octets of a bytes value        *)
(*   e  the children (tuple / list / set elements, dict items)             *)
(***************************************************************************)
EXTENDS Integers, Sequences, FiniteSets, TLC

VARIABLES heap, last, steps, blocks, cin, cstream, cout, tnode, tin, tmode, tout

vars == <<heap, last, steps, blocks, cin, cstream, cout, tnode, tin, tmode, tout>>

(***************************************************************************)
(* Bounds of the model.                                                    *)
(***************************************************************************)
MaxObjs == 5
MaxSteps == 4
MaxBlocks == 2

(***************************************************************************)
(* Python values.                                                          *)
(***************************************************************************)
Val(k, n, x, s, c, e) == [k |-> k, n |-> n, x |-> x, s |-> s, c |-> c, e |-> e]

VNone == Val("none", 0, 0, "", <<>>, <<>>)
VEmpty == Val("empty", 0, 0, "", <<>>, <<>>)
VBool(b) == Val("bool", IF b THEN 1 ELSE 0, 0, "", <<>>, <<>>)
VInt(n) == Val("int", n, 0, "", <<>>, <<>>)
VFloat(m, x) == Val("float", m, x, "", <<>>, <<>>)
VStr(c) == Val("str", 0, 0, "", c, <<>>)
VBytes(c) == Val("bytes", 0, 0, "", c, <<>>)
VPath(c) == Val("path", 0, 0, "", c, <<>>)
VTuple(e) == Val("tuple", 0, 0, "", <<>>, e)
VList(e) == Val("list", 0, 0, "", <<>>, e)
VSet(e) == Val("set", 0, 0, "", <<>>, e)
VDict(e) == Val("dict", 0, 0, "", <<>>, e)
VItem(s, v) == Val("item", 0, 0, s, <<>>, <<v>>)
VRef(o) == Val("ref", o, 0, "", <<>>, <<>>)
\* a dict entry whose key is any value (VItem: the key is a name)
VPair(key, v) == Val("pair", 0, 0, "", <<>>, <<key, v>>)
\* a member of an Enum class: the name of the class and of the member
VEnum(class_name, value_name) == Val("enum", 0, 0, "", <<>>, <<VStr(class_name), VStr(value_name)>>)

\* the code points of the names of the model
Chars(s) ==
    CASE s = "i" -> <<105>>
      [] s = "x" -> <<120>>
      [] s = "bp" -> <<98, 112>>
      [] s = "bu" -> <<98, 117>>
      [] s = "bt" -> <<98, 116>>
      [] s = "zz" -> <<122, 122>>
      [] s = "j" -> <<106>>
      [] s = "bn" -> <<98, 110>>
      [] s = "N" -> <<78>>
      [] s = "C" -> <<67>>
      [] s = "y" -> <<121>>
      [] s = "D" -> <<68>>
      [] s = "A" -> <<65>>
      [] s = "B" -> <<66>>
      [] s = "E" -> <<69>>
      [] s = "A2" -> <<65, 50>>
      [] s = "B2" -> <<66, 50>>
      [] s = "_is_frozen" -> <<95, 105, 115, 95, 102, 114, 111, 122, 101, 110>>
      [] s = "_inner_params_that_are_baseparam_class" -> <<95, 105, 110, 110, 101, 114, 95, 112, 97, 114, 97, 109, 115, 95, 116, 104, 97, 116, 95, 97, 114, 101, 95, 98, 97, 115, 101, 112, 97, 114, 97, 109, 95, 99, 108, 97, 115, 115>>
      [] s = "_name_to_type_node" -> <<95, 110, 97, 109, 101, 95, 116, 111, 95, 116, 121, 112, 101, 95, 110, 111, 100, 101>>
      [] s = "_default_values" -> <<95, 100, 101, 102, 97, 117, 108, 116, 95, 118, 97, 108, 117, 101, 115>>
      [] s = "_is_init_finished" -> <<95, 105, 115, 95, 105, 110, 105, 116, 95, 102, 105, 110, 105, 115, 104, 101, 100>>

\* the key and the value of a dict entry
KeyOf(item) == IF item.k = "item" THEN VStr(Chars(item.s)) ELSE item.e[1]
ValueOf(item) == item.e[Len(item.e)]

RECURSIVE float_of_int(_, _)
\* float(n) for an integer n: the mantissa is made odd (n = m * 2^x).
float_of_int(n, x) ==
    IF n = 0 THEN VFloat(0, 0)
    ELSE IF n % 2 = 0 THEN float_of_int(n \div 2, x + 1)
    ELSE VFloat(n, x)

IsNumber(v) == v.k \in {"bool", "int", "float"}

\* numeric comparison of Python numbers (bool, int and float compare by value)
NumEq(a, b) ==
    LET fa == IF a.k = "float" THEN a ELSE float_of_int(a.n, 0)
        fb == IF b.k = "float" THEN b ELSE float_of_int(b.n, 0)
    IN fa.n = fb.n /\ fa.x = fb.x

(***************************************************************************)
(* Python == .  Numbers compare by value across bool / int / float, sets   *)
(* and dicts ignore order, a params object compares by BaseParams.__eq__   *)
(* (parametric/_base_params.py), every other kind compares structurally    *)
(* and differs from every other kind.  ha and hb are the heaps in which    *)
(* the references of a and of b are read.                                  *)
(***************************************************************************)
\* getattr(self, field_name, EMPTY_PARAM)
get_value_including_empty(h, o, field_name) ==
    IF field_name \in DOMAIN h[o].d THEN h[o].d[field_name] ELSE VEmpty

\* == that compares the attributes of two params objects by identity
PyEq_identity(ha, a, hb, b) ==
    IF IsNumber(a) /\ IsNumber(b) THEN NumEq(a, b)
    ELSE IF a.k # b.k THEN FALSE
    ELSE IF a.k = "ref" THEN
        \A field_name \in DOMAIN ha[a.n].d :
            get_value_including_empty(ha, a.n, field_name)
              = get_value_including_empty(hb, b.n, field_name)
    ELSE a = b

RECURSIVE PyEq(_, _, _, _)
PyEq(ha, a, hb, b) ==
    IF a.s = "wide" \/ b.s = "wide" THEN a = b
    ELSE IF IsNumber(a) /\ IsNumber(b) THEN NumEq(a, b)
    ELSE IF a.k # b.k THEN FALSE
    ELSE IF a.k \in {"tuple", "list"} THEN
        /\ Len(a.e) = Len(b.e)
        /\ \A i \in 1..Len(a.e) : PyEq(ha, a.e[i], hb, b.e[i])
    ELSE IF a.k = "set" THEN
        /\ \A i \in 1..Len(a.e) : \E j \in 1..Len(b.e) : PyEq(ha, a.e[i], hb, b.e[j])
        /\ \A j \in 1..Len(b.e) : \E i \in 1..Len(a.e) : PyEq(ha, a.e[i], hb, b.e[j])
    ELSE IF a.k = "dict" THEN
        /\ Len(a.e) = Len(b.e)
        /\ \A i \in 1..Len(a.e) : \E j \in 1..Len(b.e) :
              /\ PyEq(ha, KeyOf(a.e[i]), hb, KeyOf(b.e[j]))
              /\ PyEq(ha, ValueOf(a.e[i]), hb, ValueOf(b.e[j]))
    ELSE IF a.k = "ref" THEN
        \* BaseParams.__eq__: the fields of self, read on both objects
        \A field_name \in DOMAIN ha[a.n].d :
            PyEq(ha, get_value_including_empty(ha, a.n, field_name),
                 hb, get_value_including_empty(hb, b.n, field_name))
    ELSE a = b

\* self == other for two params objects
eq(ha, self, hb, other) == PyEq(ha, VRef(self), hb, VRef(other))

(***************************************************************************)
(* Type nodes (parametric/_type_node.py).  A node is a record              *)
(* [t, cls, args, any]: t the node class, cls the params class of a        *)
(* BaseParamsNode, args the inner nodes, any the is_any_length flag.       *)
(***************************************************************************)
TN(t, cls, args, any) == [t |-> t, cls |-> cls, args |-> args, any |-> any]

IntNode == TN("int", "", <<>>, FALSE)
FloatNode == TN("float", "", <<>>, FALSE)
StrNode == TN("str", "", <<>>, FALSE)
BoolNode == TN("bool", "", <<>>, FALSE)
BytesNode == TN("bytes", "", <<>>, FALSE)
PathNode == TN("path", "", <<>>, FALSE)
NoneTypeNode == TN("none", "", <<>>, FALSE)
BaseParamsNode(cls) == TN("params", cls, <<>>, FALSE)

\* is_any_length = is_ends_with_ellipsis | len(inner_args) == 1, which Python
\* reads as (is_ends_with_ellipsis | len(inner_args)) == 1
BitOr(b, n) == IF b THEN (IF n % 2 = 0 THEN n + 1 ELSE n) ELSE n
is_any_length(is_ends_with_ellipsis, inner_args) ==
    BitOr(is_ends_with_ellipsis, Len(inner_args)) = 1

TupleNode(inner_args, is_ends_with_ellipsis) ==
    TN("tuple", "", inner_args, is_any_length(is_ends_with_ellipsis, inner_args))

\* position of a node class in _precedence_list_high_to_low
precedence(t) ==
    CASE t = "enum" -> 0
      [] t = "literal" -> 1
      [] t = "bool" -> 2
      [] t = "int" -> 3
      [] t = "float" -> 4
      [] t = "none" -> 5
      [] t = "numpy" -> 6
      [] t = "tuple" -> 7
      [] t = "bytes" -> 8
      [] t = "path" -> 9
      [] t = "str" -> 10
      [] t = "params" -> 11

RECURSIVE InsertSorted(_, _)
\* insertion of x after every element of the sorted list whose key is <= its own
InsertSorted(sorted, x) ==
    IF sorted = <<>> THEN <<x>>
    ELSE IF precedence(x.t) < precedence(Head(sorted).t)
         THEN <<x>> \o sorted
         ELSE <<Head(sorted)>> \o InsertSorted(Tail(sorted), x)

\* the members of a union left in declared order
declared_inner_args(inner_args) == inner_args

RECURSIVE sorted_inner_args(_)
\* sorted(inner_args, key=precedence): a stable sort
sorted_inner_args(inner_args) ==
    IF inner_args = <<>> THEN <<>>
    ELSE InsertSorted(sorted_inner_args(SubSeq(inner_args, 1, Len(inner_args) - 1)),
                      inner_args[Len(inner_args)])

UnionNode(inner_args) == TN("union", "", inner_args, FALSE)


(***************************************************************************)
(* Text.  A str is its sequence of code points.                            *)
(***************************************************************************)
IsDigit(ch) == ch \in 48..57
IsSpace(ch) == ch \in {32, 9, 10}

\* str.lower() on the ASCII letters
lower(c) == [i \in 1..Len(c) |-> IF c[i] \in 65..90 THEN c[i] + 32 ELSE c[i]]

\* a strip that leaves the white space where it is
unstripped(c) == c

RECURSIVE lstrip(_)
lstrip(c) == IF c # <<>> /\ IsSpace(Head(c)) THEN lstrip(Tail(c)) ELSE c

RECURSIVE rstrip(_)
rstrip(c) ==
    IF c # <<>> /\ IsSpace(c[Len(c)]) THEN rstrip(SubSeq(c, 1, Len(c) - 1)) ELSE c

\* str.strip()
strip(c) == rstrip(lstrip(c))

RECURSIVE DigitsValue(_, _)
DigitsValue(c, acc) ==
    IF c = <<>> THEN acc ELSE DigitsValue(Tail(c), 10 * acc + (Head(c) - 48))

AllDigits(c) == \A i \in 1..Len(c) : IsDigit(c[i])

Unsigned(c) == IF c # <<>> /\ Head(c) \in {43, 45} THEN Tail(c) ELSE c
Sign(c) == IF c # <<>> /\ Head(c) = 45 THEN -1 ELSE 1

\* int(text): surrounding blanks, an optional sign, one or more digits
int_of_str(c) ==
    LET body == Unsigned(strip(c))
    IN IF body # <<>> /\ AllDigits(body)
       THEN [ok |-> TRUE, v |-> VInt(Sign(strip(c)) * DigitsValue(body, 0))]
       ELSE [ok |-> FALSE, v |-> VNone]

DotAt(c) == IF \E i \in 1..Len(c) : c[i] = 46
            THEN CHOOSE i \in 1..Len(c) : c[i] = 46 /\ \A j \in 1..(i - 1) : c[j] # 46
            ELSE 0

\* float(text) on decimal literals: digits, optionally a point and a fraction.
\* The fractions of the model are the ones a binary float holds exactly with
\* two fraction bits (.0 .25 .5 .75); exponents, inf and nan are not inputs.
float_of_str(c) ==
    LET body == Unsigned(strip(c))
        dot == DotAt(body)
        ip == IF dot = 0 THEN body ELSE SubSeq(body, 1, dot - 1)
        fp == IF dot = 0 THEN <<>> ELSE SubSeq(body, dot + 1, Len(body))
        quarters == CASE fp \in {<<>>, <<48>>} -> 0
                      [] fp = <<50, 53>> -> 1
                      [] fp \in {<<53>>, <<53, 48>>} -> 2
                      [] fp = <<55, 53>> -> 3
                      [] OTHER -> -1
    IN IF /\ AllDigits(ip) /\ AllDigits(fp) /\ (ip # <<>> \/ fp # <<>>)
          /\ quarters >= 0
       THEN [ok |-> TRUE,
             v |-> float_of_int(Sign(strip(c)) * (4 * DigitsValue(ip, 0) + quarters), -2)]
       ELSE [ok |-> FALSE, v |-> VNone]

\* the token sets of BoolNode.from_str: "0" "-1" "off" "f" "false" "n" "no"
FalseTokens == {<<48>>, <<45, 49>>, <<111, 102, 102>>, <<102>>,
                <<102, 97, 108, 115, 101>>, <<110>>, <<110, 111>>}
\* "1" "on" "t" "true" "y" "yes"
TrueTokens == {<<49>>, <<111, 110>>, <<116>>, <<116, 114, 117, 101>>,
               <<121>>, <<121, 101, 115>>}
\* "none" "null"
NoneTokens == {<<110, 111, 110, 101>>, <<110, 117, 108, 108>>}

\* the outcome of an encoding: the bytes b, written also when it has raised
Enc(ok, b) == [ok |-> ok, b |-> b]

\* the UTF-8 bytes of one code point
utf8(cp) ==
    IF cp < 128 THEN <<cp>>
    ELSE IF cp < 2048 THEN <<192 + (cp \div 64), 128 + (cp % 64)>>
    ELSE IF cp < 65536
        THEN <<224 + (cp \div 4096), 128 + ((cp \div 64) % 64), 128 + (cp % 64)>>
    ELSE <<240 + (cp \div 262144), 128 + ((cp \div 4096) % 64),
           128 + ((cp \div 64) % 64), 128 + (cp % 64)>>

RECURSIVE utf8_range(_, _, _)
\* the UTF-8 bytes of the code points c[lo] .. c[hi]
utf8_range(c, lo, hi) ==
    IF lo > hi THEN <<>>
    ELSE IF lo = hi THEN utf8(c[lo])
    ELSE utf8_range(c, lo, (lo + hi) \div 2) \o utf8_range(c, (lo + hi) \div 2 + 1, hi)

\* c.encode("utf-8"): a surrogate code point cannot be encoded
encode(c) ==
    IF \E i \in 1..Len(c) : c[i] \in 55296..57343 THEN Enc(FALSE, <<>>)
    ELSE Enc(TRUE, utf8_range(c, 1, Len(c)))

\* the outcome of a decoding: the code points c
Dcd(ok, c) == [ok |-> ok, c |-> c]

IsCont(b) == b \in 128..191

\* the code point of a first byte and the continuation bytes after it, -1
\* when they are no UTF-8 encoding of a code point
code_point(b) ==
    IF b[1] < 128 THEN (IF Len(b) = 1 THEN b[1] ELSE -1)
    ELSE IF b[1] \in 194..223 THEN
        IF Len(b) = 2 THEN (b[1] - 192) * 64 + (b[2] - 128) ELSE -1
    ELSE IF b[1] \in 224..239 THEN
        IF /\ Len(b) = 3
           /\ (b[1] = 224 => b[2] >= 160)
           /\ (b[1] = 237 => b[2] <= 159)
        THEN (b[1] - 224) * 4096 + (b[2] - 128) * 64 + (b[3] - 128)
        ELSE -1
    ELSE IF b[1] \in 240..244 THEN
        IF /\ Len(b) = 4
           /\ (b[1] = 240 => b[2] >= 144)
           /\ (b[1] = 244 => b[2] <= 143)
        THEN (b[1] - 240) * 262144 + (b[2] - 128) * 4096 + (b[3] - 128) * 64 + (b[4] - 128)
        ELSE -1
    ELSE -1

\* the positions of the bytes of b that are no continuation bytes
starts(b) == SelectSeq([i \in 1..Len(b) |-> i], LAMBDA i : ~IsCont(b[i]))

\* the code points of the bytes b cut at the positions st
code_points(b, st) ==
    [j \in 1..Len(st) |->
        code_point(SubSeq(b, st[j], IF j = Len(st) THEN Len(b) ELSE st[j + 1] - 1))]

decoded(cps) ==
    IF \E j \in 1..Len(cps) : cps[j] = -1 THEN Dcd(FALSE, <<>>) ELSE Dcd(TRUE, cps)

\* data.decode("utf-8"), strict
decode(b) ==
    IF b = <<>> THEN Dcd(TRUE, <<>>)
    ELSE IF IsCont(b[1]) THEN Dcd(FALSE, <<>>)
    ELSE decoded(code_points(b, starts(b)))

RECURSIVE parts(_, _, _)
\* the components of c between slashes; cur is the component being read
parts(c, cur, acc) ==
    IF c = <<>> THEN Append(acc, cur)
    ELSE IF Head(c) = 47 THEN parts(Tail(c), <<>>, Append(acc, cur))
    ELSE parts(Tail(c), Append(cur, Head(c)), acc)

IsPart(part) == part # <<>> /\ part # <<46>>

RECURSIVE join(_)
join(ps) ==
    IF ps = <<>> THEN <<>>
    ELSE IF Len(ps) = 1 THEN ps[1]
    ELSE ps[1] \o <<47>> \o join(Tail(ps))

\* the text of a path of root (a slash or nothing) and body
path_text(root, body) ==
    IF root \o body = <<>> THEN <<46>> ELSE root \o body

\* pathlib.Path(c) on a POSIX system: empty and "." components are dropped
\* (no text of the model starts with two slashes)
Path(c) ==
    VPath(path_text(IF c # <<>> /\ c[1] = 47 THEN <<47>> ELSE <<>>,
                    join(SelectSeq(parts(c, <<>>, <<>>), IsPart))))


(***************************************************************************)
(* The declared classes.  A is the nested params type, B holds it          *)
(* directly, in a union and in a tuple:                                    *)
(*     class A(BaseParams):                                                *)
(*         i: int = 1                                                      *)
(*     class B(BaseParams):                                                *)
(*         x: float                                                        *)
(*         bp: A = A()                                                     *)
(*         bu: A | None = None                                             *)
(*         bt: tuple[A, int] = (A(), 1)                                    *)
(*     class E(BaseParams):                                                *)
(*         pass                                                            *)
(* A and B derive from the BaseParams of parametric/_base_params.py; A2    *)
(* and B2 are the same declarations over the BaseParams of                 *)
(* parametric/_base_params2.py, which reads every class attribute at       *)
(* construction, so that B2 declares  x: float = 0.                        *)
(* The two A() (A2()) of the class body are objects 1 and 2 of the heap.   *)
(* Two more classes over parametric/_base_params.py serve the reports: a   *)
(* nested type of two fields and a type that holds it, all with defaults:  *)
(*     class N(BaseParams):                                                *)
(*         i: int = 1                                                      *)
(*         j: int = 2                                                      *)
(*     class C(BaseParams):                                                *)
(*         bn: N = N()                                                     *)
(*     class D(BaseParams):                                                *)
(*         bn: N = N()                                                     *)
(*         y: float                                                        *)
(* The N() of the class bodies is object 3 of the heap of the reports.     *)
(***************************************************************************)
ClassNames == {"A", "B", "E"}
ClassNames2 == {"A2", "B2"}

\* the params type a class nests
Nested(cls) == IF cls \in ClassNames2 THEN "A2" ELSE "A"

\* _get_all_type_hints: the declared names, in declaration order
FieldNames(cls) ==
    IF cls = "E" THEN <<>>
    ELSE IF cls = "N" THEN <<"i", "j">>
    ELSE IF cls = "C" THEN <<"bn">>
    ELSE IF cls = "D" THEN <<"bn", "y">>
    ELSE IF cls \in {"A", "A2"} THEN <<"i">> ELSE <<"x", "bp", "bu", "bt">>

NameSet(cls) == {FieldNames(cls)[i] : i \in 1..Len(FieldNames(cls))}

\* self._name_to_type_node = {name: parse_typehint(name, typehint)}
name_to_type_node(cls) ==
    IF cls = "E" THEN [name \in {} |-> IntNode]
    ELSE IF cls = "N" THEN [name \in {"i", "j"} |-> IntNode]
    ELSE IF cls = "C" THEN [name \in {"bn"} |-> BaseParamsNode("N")]
    ELSE IF cls = "D" THEN [name \in {"bn", "y"} |->
            IF name = "bn" THEN BaseParamsNode("N") ELSE FloatNode]
    ELSE IF cls \in {"A", "A2"} THEN [name \in {"i"} |-> IntNode]
    ELSE [name \in {"x", "bp", "bu", "bt"} |->
            CASE name = "x" -> FloatNode
              [] name = "bp" -> BaseParamsNode(Nested(cls))
              [] name = "bu" -> UnionNode(<<BaseParamsNode(Nested(cls)), NoneTypeNode>>)
              [] name = "bt" -> TupleNode(<<BaseParamsNode(Nested(cls)), IntNode>>, FALSE)]

\* the value the class body gives a name (VEmpty: declared without a value)
ClassDefault(cls, name) ==
    CASE name = "i" -> VInt(1)
      [] name = "x" -> IF cls = "B2" THEN VInt(0) ELSE VEmpty
      [] name = "bp" -> VRef(1)
      [] name = "bu" -> VNone
      [] name = "bt" -> VTuple(<<VRef(2), VInt(1)>>)
      [] name = "j" -> VInt(2)
      [] name = "bn" -> VRef(3)
      [] name = "y" -> VEmpty

(***************************************************************************)
(* Params objects (parametric/_base_params.py).  The heap is the sequence  *)
(* of the objects created so far; an object is a record                    *)
(*   cls       its class                                                   *)
(*   d         its attributes: declared name -> value (VEmpty: not set)    *)
(*   frozen    _is_frozen                                                  *)
(*   inner     _inner_params_that_are_baseparam_class                      *)
(*   defaults  _default_values (VEmpty: no entry)                          *)
(*   init      _is_init_finished                                           *)
(* Every operation returns [ok, v, h]: ok is FALSE when the call raises,   *)
(* v is the value returned and h the heap the call leaves behind.          *)
(***************************************************************************)
Res(ok, v, h) == [ok |-> ok, v |-> v, h |-> h]

PYTHON_OBJECT == "python_object"
DUMPABLE == "dumpable"
STR == "str"
\* the fourth method of a type node, the way back to a dumpable value
TO_DUMPABLE == "to_dumpable"

\* isinstance(value, self.type) for the scalar node classes; bool is a
\* subclass of int
IsInstance(v, t) ==
    CASE t = "int" -> v.k \in {"int", "bool"}
      [] t = "float" -> v.k = "float"
      [] t = "bool" -> v.k = "bool"
      [] t = "str" -> v.k = "str"
      [] t = "bytes" -> v.k = "bytes"
      [] t = "path" -> v.k = "path"
      [] t = "none" -> v.k = "none"
      [] OTHER -> FALSE

\* float(value) for a float, an int or a bool
to_float(v) == IF v.k = "float" THEN v ELSE float_of_int(v.n, 0)

\* the elements a for loop over the value visits (Fail: not iterable)
Iterable(v) == v.k \in {"tuple", "list", "set", "str", "dict", "bytes"}
Elements(v) ==
    CASE v.k \in {"tuple", "list", "set"} -> v.e
      [] v.k = "str" -> [i \in 1..Len(v.c) |-> VStr(<<v.c[i]>>)]
      [] v.k = "bytes" -> [i \in 1..Len(v.c) |-> VInt(v.c[i])]
      [] v.k = "dict" -> [i \in 1..Len(v.e) |-> KeyOf(v.e[i])]
      [] OTHER -> <<>>

\* __setattr__ without the check of _is_frozen
setattr_unchecked(h, o, key, value) ==
    IF h[o].init /\ key \notin DOMAIN name_to_type_node(h[o].cls) /\ key # "_is_frozen"
    THEN Res(FALSE, VNone, h)
    ELSE IF key = "_is_frozen"
        THEN Res(TRUE, VNone, [h EXCEPT ![o].frozen = (value.n = 1)])
    ELSE Res(TRUE, VNone, [h EXCEPT ![o].d[key] = value])

\* BaseParams.__setattr__ of parametric/_base_params.py
setattr1(h, o, key, value) ==
    IF ~h[o].init THEN
        IF key = "_is_frozen"
        THEN Res(TRUE, VNone, [h EXCEPT ![o].frozen = (value.n = 1)])
        ELSE Res(TRUE, VNone, [h EXCEPT ![o].d[key] = value])
    ELSE IF key \notin DOMAIN name_to_type_node(h[o].cls) /\ key # "_is_frozen"
        THEN Res(FALSE, VNone, h)
    ELSE IF h[o].frozen THEN Res(FALSE, VNone, h)
    ELSE IF key = "_is_frozen"
        THEN Res(TRUE, VNone, [h EXCEPT ![o].frozen = (value.n = 1)])
    ELSE Res(TRUE, VNone, [h EXCEPT ![o].d[key] = value])

\* BaseParams.__setattr__ of parametric/_base_params2.py
setattr2(h, o, key, value) ==
    IF ~h[o].init THEN
        IF key = "_is_frozen"
        THEN Res(TRUE, VNone, [h EXCEPT ![o].frozen = (value.n = 1)])
        ELSE Res(TRUE, VNone, [h EXCEPT ![o].d[key] = value])
    ELSE IF key = "_is_frozen"
        THEN Res(TRUE, VNone, [h EXCEPT ![o].frozen = (value.n = 1)])
    ELSE IF key \notin DOMAIN name_to_type_node(h[o].cls) THEN Res(FALSE, VNone, h)
    ELSE IF h[o].frozen THEN Res(FALSE, VNone, h)
    ELSE Res(TRUE, VNone, [h EXCEPT ![o].d[key] = value])

\* obj.key = value: the __setattr__ of the class of the object
setattr(h, o, key, value) ==
    IF h[o].cls \in ClassNames2 THEN setattr2(h, o, key, value)
    ELSE setattr1(h, o, key, value)

RECURSIVE from_python_object(_, _, _)
RECURSIVE instantiate(_, _)
RECURSIVE call_override_from_dict(_, _, _, _)
RECURSIVE from_dumpable(_, _, _)
RECURSIVE from_str(_, _, _)
RECURSIVE to_dumpable(_, _, _)
RECURSIVE convert(_, _, _, _)
RECURSIVE cast_elements(_, _, _, _, _, _)
RECURSIVE union_first(_, _, _, _)
RECURSIVE convert_and_set(_, _, _, _, _)
RECURSIVE override_loop(_, _, _, _, _)
RECURSIVE init_loop(_, _, _)
RECURSIVE construct(_, _)

Raise(h) == Res(FALSE, VNone, h)

\* the dispatch of _convert_and_set on conversion_from_type; a compound
\* node passes its own method on to its inner nodes, to_dumpable included
convert(conversion_from_type, node, value, h) ==
    CASE conversion_from_type = PYTHON_OBJECT -> from_python_object(node, value, h)
      [] conversion_from_type = DUMPABLE -> from_dumpable(node, value, h)
      [] conversion_from_type = STR -> from_str(node, value, h)
      [] conversion_from_type = TO_DUMPABLE -> to_dumpable(node, value, h)
      [] OTHER -> Raise(h)

\* one turn of the conversion loop of a TupleNode: r is the converted element i
cast_next(conversion_from_type, node, elems, i, acc, h, r) ==
    IF ~r.ok THEN Raise(h)
    ELSE cast_elements(conversion_from_type, node, elems, i + 1, Append(acc, r.v), r.h)

\* TupleNode._cast_prolog and the conversion loop over its pairs: element i
\* goes to inner_args[i] (inner_args[0] when the node is any-length); an
\* index past inner_args is an IndexError
cast_elements(conversion_from_type, node, elems, i, acc, h) ==
    IF i > Len(elems) THEN Res(TRUE, VTuple(acc), h)
    ELSE IF (IF node.any THEN 1 ELSE i) > Len(node.args) THEN Raise(h)
    ELSE cast_next(conversion_from_type, node, elems, i, acc, h,
                   convert(conversion_from_type,
                           node.args[IF node.any THEN 1 ELSE i], elems[i], h))

\* one turn of the loop of a UnionNode: r is the outcome of the first member
union_next(conversion_from_type, nodes, value, h, r) ==
    IF r.ok THEN r
    ELSE union_first(conversion_from_type, Tail(nodes), value, h)

\* UnionNode: the first member of sorted_inner_args that does not raise
union_first(conversion_from_type, nodes, value, h) ==
    IF nodes = <<>> THEN Raise(h)
    ELSE union_next(conversion_from_type, nodes, value, h,
                    convert(conversion_from_type, Head(nodes), value, h))

\* TypeNode.from_python_object and its overrides
from_python_object(node, value, h) ==
    CASE node.t = "float" ->
            IF value.k \in {"float", "int", "bool"}
            THEN Res(TRUE, to_float(value), h) ELSE Raise(h)
      [] node.t \in {"int", "bool", "str", "bytes", "path", "none"} ->
            IF IsInstance(value, node.t) THEN Res(TRUE, value, h) ELSE Raise(h)
      [] node.t = "params" ->
            IF value.k = "ref" /\ h[value.n].cls = node.cls
            THEN Res(TRUE, value, h) ELSE Raise(h)
      [] node.t = "tuple" ->
            IF value.k # "tuple" THEN Raise(h)
            ELSE cast_elements(PYTHON_OBJECT, node, value.e, 1, <<>>, h)
      [] node.t = "union" ->
            union_first(PYTHON_OBJECT, sorted_inner_args(node.args), value, h)
      [] OTHER -> Raise(h)

\* a from_dumpable that returns the new instance whatever its override did
new_instance_unchecked(h, instance, r) == Res(TRUE, instance, r.h)

\* the end of BaseParamsNode.from_dumpable: r is the outcome of the override
\* of the new instance
new_instance(h, instance, r) ==
    IF r.ok THEN Res(TRUE, instance, r.h) ELSE Raise(h)

\* BaseParamsNode.from_dumpable on a dict: inst is the outcome of
\* self.base_params_type()
params_from_dict(h, value, inst) ==
    IF ~inst.ok THEN Raise(h)
    ELSE new_instance(h, inst.v,
                      call_override_from_dict(inst.h, inst.v.n, value.e, DUMPABLE))

\* TypeNode.from_dumpable and its overrides
from_dumpable(node, value, h) ==
    CASE node.t = "bytes" ->
            IF value.k = "str" /\ encode(value.c).ok
            THEN Res(TRUE, VBytes(encode(value.c).b), h) ELSE Raise(h)
      [] node.t = "path" ->
            IF value.k \in {"str", "path"} THEN Res(TRUE, Path(value.c), h)
            ELSE Raise(h)
      [] node.t = "params" ->
            IF value.k # "dict" THEN Raise(h)
            ELSE params_from_dict(h, value, instantiate(h, node.cls))
      [] node.t = "tuple" ->
            IF ~Iterable(value) THEN Raise(h)
            ELSE cast_elements(DUMPABLE, node, Elements(value), 1, <<>>, h)
      [] node.t = "union" ->
            union_first(DUMPABLE, sorted_inner_args(node.args), value, h)
      [] OTHER -> from_python_object(node, value, h)

WithHeap(r, h) == Res(r.ok, r.v, h)

\* TypeNode.from_str and its overrides
from_str(node, value, h) ==
    IF value.k # "str" THEN Raise(h)
    ELSE CASE node.t = "int" -> WithHeap(int_of_str(value.c), h)
           [] node.t = "float" -> WithHeap(float_of_str(value.c), h)
           [] node.t = "str" -> Res(TRUE, value, h)
           [] node.t = "bool" ->
                 IF strip(lower(value.c)) \in FalseTokens THEN Res(TRUE, VBool(FALSE), h)
                 ELSE IF strip(lower(value.c)) \in TrueTokens THEN Res(TRUE, VBool(TRUE), h)
                 ELSE Raise(h)
           [] node.t = "none" ->
                 IF strip(lower(value.c)) \in NoneTokens
                 THEN Res(TRUE, VNone, h) ELSE Raise(h)
           [] node.t = "tuple" ->
                 cast_elements(STR, node, Elements(value), 1, <<>>, h)
           [] node.t = "union" ->
                 union_first(STR, sorted_inner_args(node.args), value, h)
           [] OTHER -> from_dumpable(node, value, h)

\* list(...) around the converted elements of TupleNode.to_dumpable
as_list(r) == IF r.ok THEN Res(TRUE, VList(r.v.e), r.h) ELSE r

\* TypeNode.to_dumpable and its overrides
to_dumpable(node, value, h) ==
    CASE node.t = "bytes" ->
            IF value.k = "bytes" /\ decode(value.c).ok
            THEN Res(TRUE, VStr(decode(value.c).c), h) ELSE Raise(h)
      [] node.t = "path" ->
            IF value.k = "path" THEN Res(TRUE, VStr(value.c), h) ELSE Raise(h)
      [] node.t = "params" -> Raise(h)
      [] node.t = "tuple" ->
            IF ~Iterable(value) THEN Raise(h)
            ELSE as_list(cast_elements(TO_DUMPABLE, node, Elements(value), 1, <<>>, h))
      [] node.t = "union" ->
            union_first(TO_DUMPABLE, sorted_inner_args(node.args), value, h)
      [] OTHER ->
            IF IsInstance(value, node.t) THEN Res(TRUE, value, h) ELSE Raise(h)

\* the outcome of _convert_and_set from the outcome s of its setattr
Converted(s, converted_val) == Res(s.ok, converted_val, s.h)

\* the inner-params bookkeeping of _convert_and_set
note_inner(h, o, name, converted_val) ==
    [h EXCEPT ![o].inner =
        IF converted_val.k = "ref" THEN @ \cup {name} ELSE @ \ {name}]

\* _convert_and_set that stores the value as given instead of the converted one
set_raw(h, o, name, value, r) ==
    IF ~r.ok THEN Raise(h)
    ELSE Converted(setattr(note_inner(r.h, o, name, r.v), o, name, value), value)

\* the second half of _convert_and_set: r is the outcome of the conversion
set_converted(h, o, name, value, r) ==
    IF ~r.ok THEN Raise(h)
    ELSE Converted(setattr(note_inner(r.h, o, name, r.v), o, name, r.v), r.v)

\* BaseParams._convert_and_set: convert, note whether the result is a params
\* object, then setattr.  v of the result is the converted value.
convert_and_set(h, o, name, value, conversion_from_type) ==
    set_converted(h, o, name, value,
                  convert(conversion_from_type, name_to_type_node(h[o].cls)[name],
                          value, h))

\* one turn of the loop of _override_from_dict: r is the outcome of
\* _convert_and_set on entry i
override_next(o, items, i, conversion_from_type, r) ==
    IF ~r.ok THEN Raise(r.h)
    ELSE override_loop(r.h, o, items, i + 1, conversion_from_type)

\* the loop of BaseParams._override_from_dict over changed_params.items(),
\* from entry i on; an entry is an item (s: the name, e[1]: the value)
override_loop(h, o, items, i, conversion_from_type) ==
    IF i > Len(items) THEN Res(TRUE, VNone, h)
    ELSE IF items[i].s \notin DOMAIN name_to_type_node(h[o].cls) THEN Raise(h)
    ELSE override_next(o, items, i, conversion_from_type,
                       convert_and_set(h, o, items[i].s, items[i].e[1],
                                       conversion_from_type))

\* one turn of the loop of __init__: r is the outcome of _convert_and_set on
\* name i, recorded in _default_values
init_next(h, o, i, r) ==
    IF ~r.ok THEN Raise(h)
    ELSE init_loop([r.h EXCEPT ![o].defaults[FieldNames(r.h[o].cls)[i]] = r.v], o, i + 1)

\* the loop of BaseParams.__init__ over the declared names, from name i on
init_loop(h, o, i) ==
    IF i > Len(FieldNames(h[o].cls)) THEN Res(TRUE, VRef(o), h)
    ELSE IF get_value_including_empty(h, o, FieldNames(h[o].cls)[i]) = VEmpty
        THEN init_loop(h, o, i + 1)
    ELSE init_next(h, o, i,
                   convert_and_set(h, o, FieldNames(h[o].cls)[i],
                                   get_value_including_empty(h, o, FieldNames(h[o].cls)[i]),
                                   PYTHON_OBJECT))

\* the object __init__ starts from: its attributes are the class attributes
Fresh(cls) ==
    [cls |-> cls,
     d |-> [name \in NameSet(cls) |-> ClassDefault(cls, name)],
     frozen |-> FALSE,
     inner |-> {},
     defaults |-> [name \in NameSet(cls) |-> VEmpty],
     init |-> FALSE]

\* the end of __init__: r is the outcome of its loop
init_finished(h, o, r) ==
    IF ~r.ok THEN Raise(h)
    ELSE Res(TRUE, VRef(o), [r.h EXCEPT ![o].init = TRUE])

\* BaseParams.__init__: v of the result refers to the new object
construct(h, cls) ==
    init_finished(h, Len(h) + 1, init_loop(Append(h, Fresh(cls)), Len(h) + 1, 1))

\* BaseParams._override_from_dict of parametric/_base_params.py
override_from_dict(h, o, changed_params, conversion_from_type) ==
    override_loop(h, o, changed_params, 1, conversion_from_type)

(***************************************************************************)
(* parametric/_base_params2.py and parametric/_context_manager.py: the     *)
(* instances are frozen when __init__ ends and an Override block opens     *)
(* them.  _convert_and_set and the loop of _override_from_dict are those   *)
(* of parametric/_base_params.py (the exception raised is another class).  *)
(***************************************************************************)
\* Override.__enter__
enter(h, o) == [h EXCEPT ![o].frozen = FALSE]

\* a block that sets _is_frozen back only when its body has not raised
exit_on_success(o, r) ==
    IF r.ok THEN Res(r.ok, r.v, [r.h EXCEPT ![o].frozen = TRUE]) ELSE r

\* Override.__exit__: runs when the block ends and when it raises; the
\* exception, if any, goes on to the caller
exit(o, r) == Res(r.ok, r.v, [r.h EXCEPT ![o].frozen = TRUE])

\* BaseParams._override_from_dict of parametric/_base_params2.py:
\* with Override(self): the loop
override_from_dict2(h, o, data, conversion_from_type) ==
    exit(o, override_loop(enter(h, o), o, data, 1, conversion_from_type))

\* the end of __init__ of parametric/_base_params2.py: r is the outcome of
\* its loop
init_finished2(h, o, r) ==
    IF ~r.ok THEN Raise(h)
    ELSE Res(TRUE, VRef(o), [r.h EXCEPT ![o].frozen = TRUE, ![o].init = TRUE])

\* the names whose class attribute is missing: getattr(self, name) raises
NoDefault(cls) == {name \in NameSet(cls) : ClassDefault(cls, name) = VEmpty}

\* BaseParams.__init__ of parametric/_base_params2.py
construct2(h, cls) ==
    IF NoDefault(cls) # {} THEN Raise(h)
    ELSE init_finished2(h, Len(h) + 1, init_loop(Append(h, Fresh(cls)), Len(h) + 1, 1))

\* cls(): the __init__ of the class
instantiate(h, cls) ==
    IF cls \in ClassNames2 THEN construct2(h, cls) ELSE construct(h, cls)

\* obj._override_from_dict(...): the method of the class of the object
call_override_from_dict(h, o, changed_params, conversion_from_type) ==
    IF h[o].cls \in ClassNames2
    THEN override_from_dict2(h, o, changed_params, conversion_from_type)
    ELSE override_from_dict(h, o, changed_params, conversion_from_type)

RECURSIVE freeze(_, _)
RECURSIVE freeze_loop(_, _, _)

\* one turn of the loop of freeze: r is the outcome of freezing the nested
\* object held by name i
freeze_next(o, i, r) ==
    IF ~r.ok THEN r ELSE freeze_loop(r.h, o, i + 1)

\* the loop of BaseParams.freeze over the declared names, from name i on
freeze_loop(h, o, i) ==
    IF i > Len(FieldNames(h[o].cls)) THEN Res(TRUE, VNone, h)
    ELSE IF get_value_including_empty(h, o, FieldNames(h[o].cls)[i]) = VEmpty
        THEN Raise(h)
    ELSE IF FieldNames(h[o].cls)[i] \in h[o].inner THEN
        \* getattr(self, name).freeze(): an AttributeError when the attribute
        \* holds no params object
        IF h[o].d[FieldNames(h[o].cls)[i]].k # "ref" THEN Raise(h)
        ELSE freeze_next(o, i, freeze(h, h[o].d[FieldNames(h[o].cls)[i]].n))
    ELSE freeze_loop(h, o, i + 1)

\* the end of freeze: r is the outcome of its loop
set_frozen(o, r) ==
    IF ~r.ok THEN r ELSE setattr(r.h, o, "_is_frozen", VBool(TRUE))

\* BaseParams.freeze
freeze(h, o) == set_frozen(o, freeze_loop(h, o, 1))

(***************************************************************************)
(* The binary codec (parametric/_msgpack.py).  A stream is a sequence of   *)
(* bytes 0..255.  ndarray and datetime values (tags 0x09 and 0x0B) are     *)
(* outside the values of the model: no stream of the model carries one of  *)
(* these tags where a tag is read.                                         *)
(***************************************************************************)
TYPE_NONE == 0
TYPE_BOOL_FALSE == 1
TYPE_BOOL_TRUE == 2
TYPE_INT == 3
TYPE_FLOAT == 4
TYPE_STR == 5
TYPE_LIST == 6
TYPE_TUPLE == 7
TYPE_DICT == 8
TYPE_NDARRAY == 9
TYPE_PATH == 10
TYPE_DATETIME == 11
TYPE_ENUM == 12
TYPE_BASEPARAMS == 13
TYPE_BYTES == 14
TYPE_SET == 15

RECURSIVE be_bytes(_, _)
\* the w big-endian bytes of n >= 0
be_bytes(n, w) ==
    IF w = 0 THEN <<>> ELSE Append(be_bytes(n \div 256, w - 1), n % 256)

RECURSIVE from_bytes(_, _)
\* the number whose big-endian bytes are b, after the digits of acc
from_bytes(b, acc) ==
    IF b = <<>> THEN acc ELSE from_bytes(Tail(b), acc * 256 + Head(b))

\* struct.pack(">I", n)
pack_I(n) == be_bytes(n, 4)

\* struct.pack(">q", n) with the sign in the first bit only
pack_q_sign_magnitude(n) ==
    IF n >= 0 THEN be_bytes(n, 8)
    ELSE [i \in 1..8 |-> IF i = 1 THEN 128 ELSE be_bytes(-n, 8)[i]]

\* struct.pack(">q", n): 8 bytes, two's complement
pack_q(n) ==
    IF n >= 0 THEN be_bytes(n, 8)
    ELSE [i \in 1..8 |-> 255 - be_bytes(-n - 1, 8)[i]]

\* struct.unpack(">q", data)[0] for 8 bytes; an int wider than the integers
\* of the model keeps its bytes
unpack_q(data) ==
    IF SubSeq(data, 1, 4) = <<0, 0, 0, 0>> /\ data[5] < 128
        THEN VInt(from_bytes(SubSeq(data, 5, 8), 0))
    ELSE IF SubSeq(data, 1, 4) = <<255, 255, 255, 255>> /\ data[5] >= 128
        THEN VInt(-from_bytes([i \in 1..4 |-> 255 - data[4 + i]], 0) - 1)
    ELSE Val("int", 0, 0, "wide", data, <<>>)

RECURSIVE bits(_, _)
\* the w bits of n >= 0, most significant first
bits(n, w) == IF w = 0 THEN <<>> ELSE Append(bits(n \div 2, w - 1), n % 2)

RECURSIVE from_bits(_, _)
from_bits(b, acc) ==
    IF b = <<>> THEN acc ELSE from_bits(Tail(b), 2 * acc + Head(b))

RECURSIVE bit_length(_)
bit_length(n) == IF n = 0 THEN 0 ELSE 1 + bit_length(n \div 2)

RECURSIVE bits_of_bytes(_)
bits_of_bytes(b) ==
    IF b = <<>> THEN <<>> ELSE bits(Head(b), 8) \o bits_of_bytes(Tail(b))

bytes_of_bits(b) ==
    [i \in 1..(Len(b) \div 8) |-> from_bits(SubSeq(b, 8 * i - 7, 8 * i), 0)]

\* the IEEE 754 binary64 bits of a * 2^x (a > 0 of L bits): sign, biased
\* exponent, the bits of a below its leading one
double_bits(sign, a, x, L) ==
    <<sign>> \o bits(x + L - 1 + 1023, 11) \o bits(a - 2 ^ (L - 1), L - 1)
             \o [i \in 1..(53 - L) |-> 0]

\* struct.pack(">d", obj)
pack_d(obj) ==
    IF obj.s = "wide" THEN obj.c
    ELSE IF obj.n = 0 THEN [i \in 1..8 |-> 0]
    ELSE IF obj.n < 0
        THEN bytes_of_bits(double_bits(1, -obj.n, obj.x, bit_length(-obj.n)))
    ELSE bytes_of_bits(double_bits(0, obj.n, obj.x, bit_length(obj.n)))

\* the position of the last 1 of a bit sequence, 0 when there is none
last_one(b) ==
    IF \A i \in 1..Len(b) : b[i] = 0 THEN 0
    ELSE CHOOSE i \in 1..Len(b) : b[i] = 1 /\ \A j \in (i + 1)..Len(b) : b[j] = 0

\* the float of sign, biased exponent E and fraction bits frac, whose last 1
\* is at k; a float outside the floats of the model keeps its bytes
double_of(data, sign, E, frac, k) ==
    IF E = 0 /\ k = 0 THEN VFloat(0, 0)
    ELSE IF E \in 1..2046 /\ k <= 30
        THEN VFloat((IF sign = 1 THEN -1 ELSE 1) * from_bits(<<1>> \o SubSeq(frac, 1, k), 0),
                    E - 1023 - k)
    ELSE Val("float", 0, 0, "wide", data, <<>>)

unpack_d_bits(data, b) ==
    double_of(data, b[1], from_bits(SubSeq(b, 2, 12), 0), SubSeq(b, 13, 64),
              last_one(SubSeq(b, 13, 64)))

\* struct.unpack(">d", data)[0] for 8 bytes
unpack_d(data) == unpack_d_bits(data, bits_of_bytes(data))

\* self.__dict__ of a params object, in the order __init__ sets the
\* attributes: the bookkeeping attributes and the fields that hold a value
TypeNodeValue(node) == Val("typenode", 0, 0, node.t, <<>>, <<>>)

IsInner(h, o, name) == name \in h[o].inner
HasDefault(h, o, name) == h[o].defaults[name] # VEmpty
HasValue(h, o, name) == h[o].d[name] # VEmpty

inner_set(h, o) ==
    LET names == SelectSeq(FieldNames(h[o].cls), LAMBDA name : IsInner(h, o, name))
    IN VSet([i \in 1..Len(names) |-> VStr(Chars(names[i]))])

node_dict(h, o) ==
    VDict([i \in 1..Len(FieldNames(h[o].cls)) |->
              VItem(FieldNames(h[o].cls)[i],
                    TypeNodeValue(name_to_type_node(h[o].cls)[FieldNames(h[o].cls)[i]]))])

defaults_dict(h, o) ==
    LET names == SelectSeq(FieldNames(h[o].cls), LAMBDA name : HasDefault(h, o, name))
    IN VDict([i \in 1..Len(names) |-> VItem(names[i], h[o].defaults[names[i]])])

field_items(h, o) ==
    LET names == SelectSeq(FieldNames(h[o].cls), LAMBDA name : HasValue(h, o, name))
    IN [i \in 1..Len(names) |-> VItem(names[i], h[o].d[names[i]])]

obj_dict(h, o) ==
    IF h[o].cls \in ClassNames2 THEN
        VDict(<<VItem("_inner_params_that_are_baseparam_class", inner_set(h, o)),
                VItem("_name_to_type_node", node_dict(h, o)),
                VItem("_default_values", defaults_dict(h, o))>>
              \o field_items(h, o)
              \o <<VItem("_is_frozen", VBool(h[o].frozen)),
                   VItem("_is_init_finished", VBool(h[o].init))>>)
    ELSE
        VDict(<<VItem("_is_frozen", VBool(h[o].frozen)),
                VItem("_inner_params_that_are_baseparam_class", inner_set(h, o)),
                VItem("_name_to_type_node", node_dict(h, o)),
                VItem("_default_values", defaults_dict(h, o))>>
              \o field_items(h, o)
              \o <<VItem("_is_init_finished", VBool(h[o].init))>>)

\* key, value, key, value, ... of obj.items()
items_of(e) ==
    [i \in 1..(2 * Len(e)) |->
        IF i % 2 = 1 THEN KeyOf(e[(i + 1) \div 2]) ELSE ValueOf(e[i \div 2])]

\* stream.write(b) and then what r has written
write(b, r) == Enc(r.ok, b \o r.b)

\* the tag, the 4-byte length and the bytes of an encoded text (r: the
\* outcome of encode)
pack_text(tag, r) ==
    IF ~r.ok THEN Enc(FALSE, tag) ELSE Enc(TRUE, tag \o pack_I(Len(r.b)) \o r.b)

\* what follows the class name written by r1: a second text, the param dict
then_text(r1, r) == IF ~r1.ok THEN r1 ELSE pack_text(r1.b, r)
then_write(r1, r) == IF ~r1.ok THEN r1 ELSE write(r1.b, r)

RECURSIVE pack_obj(_, _)
RECURSIVE pack_items(_, _, _)

\* one turn of a loop of pack_obj: r is what pack_obj has written for item i
pack_next(h, elems, i, r) ==
    IF ~r.ok THEN r ELSE write(r.b, pack_items(h, elems, i + 1))

\* for item in obj: pack_obj(item, stream), from item i on
pack_items(h, elems, i) ==
    IF i > Len(elems) THEN Enc(TRUE, <<>>)
    ELSE pack_next(h, elems, i, pack_obj(h, elems[i]))

\* pack_obj(obj, stream): what it writes to the stream, and ok = FALSE when
\* it raises
pack_obj(h, obj) ==
    IF obj.k = "none" THEN Enc(TRUE, <<TYPE_NONE>>)
    ELSE IF obj.k = "bool"
        THEN Enc(TRUE, IF obj.n = 1 THEN <<TYPE_BOOL_TRUE>> ELSE <<TYPE_BOOL_FALSE>>)
    ELSE IF obj.k = "int"
        THEN Enc(TRUE, <<TYPE_INT>> \o (IF obj.s = "wide" THEN obj.c ELSE pack_q(obj.n)))
    ELSE IF obj.k = "float" THEN Enc(TRUE, <<TYPE_FLOAT>> \o pack_d(obj))
    ELSE IF obj.k = "str" THEN pack_text(<<TYPE_STR>>, encode(obj.c))
    ELSE IF obj.k = "list"
        THEN write(<<TYPE_LIST>> \o pack_I(Len(obj.e)), pack_items(h, obj.e, 1))
    ELSE IF obj.k = "tuple"
        THEN write(<<TYPE_TUPLE>> \o pack_I(Len(obj.e)), pack_items(h, obj.e, 1))
    ELSE IF obj.k = "dict"
        THEN write(<<TYPE_DICT>> \o pack_I(Len(obj.e)), pack_items(h, items_of(obj.e), 1))
    ELSE IF obj.k = "path" THEN pack_text(<<TYPE_PATH>>, encode(obj.c))
    ELSE IF obj.k = "enum"
        THEN then_text(pack_text(<<TYPE_ENUM>>, encode(obj.e[1].c)), encode(obj.e[2].c))
    ELSE IF obj.k = "ref"
        THEN then_write(pack_text(<<TYPE_BASEPARAMS>>, encode(Chars(h[obj.n].cls))),
                        pack_obj(h, obj_dict(h, obj.n)))
    ELSE IF obj.k = "bytes"
        THEN Enc(TRUE, <<TYPE_BYTES>> \o pack_I(Len(obj.c)) \o obj.c)
    ELSE IF obj.k = "set"
        THEN write(<<TYPE_SET>> \o pack_I(Len(obj.e)), pack_items(h, obj.e, 1))
    ELSE Enc(FALSE, <<>>)

\* EnumData(class_name, value_name) and BaseParamsData(class_name, param_dict)
EnumData(class_name, value_name) ==
    Val("EnumData", 0, 0, "", <<>>, <<class_name, value_name>>)
BaseParamsData(class_name, param_dict) ==
    Val("BaseParamsData", 0, 0, "", <<>>, <<class_name, param_dict>>)

\* hash(v) does not raise
RECURSIVE Hashable(_)
Hashable(v) ==
    IF v.k \in {"none", "bool", "int", "float", "str", "bytes", "path", "enum"} THEN TRUE
    ELSE IF v.k = "tuple" THEN \A i \in 1..Len(v.e) : Hashable(v.e[i])
    ELSE FALSE

\* result_set.add(v)
set_add(acc, v) ==
    IF \E i \in 1..Len(acc) : PyEq(<<>>, acc[i], <<>>, v) THEN acc ELSE Append(acc, v)

\* d[key] = value
dict_set(acc, key, value) ==
    IF \E i \in 1..Len(acc) : PyEq(<<>>, acc[i].e[1], <<>>, key)
    THEN [i \in 1..Len(acc) |->
            IF PyEq(<<>>, acc[i].e[1], <<>>, key) THEN VPair(acc[i].e[1], value) ELSE acc[i]]
    ELSE Append(acc, VPair(key, value))

\* stream.read(n) at position pos: the bytes that are there, n at most
read(stream, pos, n) ==
    IF n > Len(stream) - pos + 1 THEN SubSeq(stream, pos, Len(stream))
    ELSE SubSeq(stream, pos, pos + n - 1)

\* the outcome of a decoding step: the value v and the position the stream
\* is left at
Dec(ok, v, pos) == [ok |-> ok, v |-> v, pos |-> pos]

\* struct.unpack(">I", stream.read(4)): struct.error on fewer than 4 bytes
\* (a count of 2^31 or more reads as 2^31 - 1: no stream is that long)
unpack_I(data, pos) ==
    IF Len(data) < 4 THEN Dec(FALSE, 0, pos + Len(data))
    ELSE Dec(TRUE, IF data[1] >= 128 THEN 2147483647 ELSE from_bytes(data, 0), pos + 4)

\* the 8 bytes of an int or a float: struct.error on fewer
unpack_8(data, pos, kind) ==
    IF Len(data) < 8 THEN Dec(FALSE, VNone, pos + Len(data))
    ELSE Dec(TRUE, IF kind = "int" THEN unpack_q(data) ELSE unpack_d(data), pos + 8)

\* data = stream.read(length) and its decoding; hdr is the length read
read_text(data, d, pos) ==
    IF ~d.ok THEN Dec(FALSE, VNone, pos + Len(data)) ELSE Dec(TRUE, VStr(d.c), pos + Len(data))

unpack_text(stream, hdr) ==
    IF ~hdr.ok THEN Dec(FALSE, VNone, hdr.pos)
    ELSE read_text(read(stream, hdr.pos, hdr.v),
                   decode(read(stream, hdr.pos, hdr.v)), hdr.pos)

\* Path(data.decode("utf-8"))
as_path(r) == IF ~r.ok THEN r ELSE Dec(TRUE, Path(r.v.c), r.pos)

\* stream.read(length) of a bytes object
unpack_bytes(stream, hdr) ==
    IF ~hdr.ok THEN Dec(FALSE, VNone, hdr.pos)
    ELSE Dec(TRUE, VBytes(read(stream, hdr.pos, hdr.v)),
             hdr.pos + Len(read(stream, hdr.pos, hdr.v)))

\* the value name after the class name r of an enum member
enum_data(class_name, r) ==
    IF ~r.ok THEN r ELSE Dec(TRUE, EnumData(class_name, r.v), r.pos)

unpack_enum(stream, r) ==
    IF ~r.ok THEN r
    ELSE enum_data(r.v, unpack_text(stream, unpack_I(read(stream, r.pos, 4), r.pos)))

RECURSIVE unpack_obj(_, _)
RECURSIVE unpack_items(_, _, _, _)
RECURSIVE unpack_set(_, _, _, _)
RECURSIVE unpack_dict(_, _, _, _)

\* one turn of the loop of a list or tuple: r is the item unpacked
unpack_more(stream, n, acc, r) ==
    IF ~r.ok THEN r ELSE unpack_items(stream, r.pos, n - 1, Append(acc, r.v))

\* for _ in range(length): lst.append(unpack_obj(stream)), n turns to go
unpack_items(stream, pos, n, acc) ==
    IF n = 0 THEN Dec(TRUE, acc, pos) ELSE unpack_more(stream, n, acc, unpack_obj(stream, pos))

\* one turn of the loop of a set: a TypeError on an item that has no hash
unpack_set_more(stream, n, acc, r) ==
    IF ~r.ok THEN r
    ELSE IF ~Hashable(r.v) THEN Dec(FALSE, VNone, r.pos)
    ELSE unpack_set(stream, r.pos, n - 1, set_add(acc, r.v))

unpack_set(stream, pos, n, acc) ==
    IF n = 0 THEN Dec(TRUE, acc, pos)
    ELSE unpack_set_more(stream, n, acc, unpack_obj(stream, pos))

\* one turn of the loop of a dict: key, then value, then d[key] = value
unpack_dict_value(stream, n, acc, key, r) ==
    IF ~r.ok THEN r
    ELSE IF ~Hashable(key) THEN Dec(FALSE, VNone, r.pos)
    ELSE unpack_dict(stream, r.pos, n - 1, dict_set(acc, key, r.v))

unpack_dict_key(stream, n, acc, r) ==
    IF ~r.ok THEN r ELSE unpack_dict_value(stream, n, acc, r.v, unpack_obj(stream, r.pos))

unpack_dict(stream, pos, n, acc) ==
    IF n = 0 THEN Dec(TRUE, acc, pos)
    ELSE unpack_dict_key(stream, n, acc, unpack_obj(stream, pos))

\* the container built from the items r of a loop
container(kind, r) ==
    IF ~r.ok THEN r ELSE Dec(TRUE, Val(kind, 0, 0, "", <<>>, r.v), r.pos)

\* the count, then the loop of a list, tuple, set or dict
unpack_container(stream, kind, hdr) ==
    IF ~hdr.ok THEN Dec(FALSE, VNone, hdr.pos)
    ELSE IF kind = "set" THEN container(kind, unpack_set(stream, hdr.pos, hdr.v, <<>>))
    ELSE IF kind = "dict" THEN container(kind, unpack_dict(stream, hdr.pos, hdr.v, <<>>))
    ELSE container(kind, unpack_items(stream, hdr.pos, hdr.v, <<>>))

\* the param dict after the class name r of a params object
params_data(class_name, r) ==
    IF ~r.ok THEN r ELSE Dec(TRUE, BaseParamsData(class_name, r.v), r.pos)

unpack_params(stream, r) ==
    IF ~r.ok THEN r ELSE params_data(r.v, unpack_obj(stream, r.pos))

\* the defined tags
Tags == 0..15

\* unpack_obj(stream) with the stream at position pos
unpack_obj(stream, pos) ==
    IF pos > Len(stream) THEN Dec(FALSE, VNone, pos)
    ELSE IF stream[pos] \notin Tags THEN Dec(FALSE, VNone, pos + 1)
    ELSE CASE stream[pos] = TYPE_NONE -> Dec(TRUE, VNone, pos + 1)
      [] stream[pos] = TYPE_BOOL_FALSE -> Dec(TRUE, VBool(FALSE), pos + 1)
      [] stream[pos] = TYPE_BOOL_TRUE -> Dec(TRUE, VBool(TRUE), pos + 1)
      [] stream[pos] = TYPE_INT -> unpack_8(read(stream, pos + 1, 8), pos + 1, "int")
      [] stream[pos] = TYPE_FLOAT -> unpack_8(read(stream, pos + 1, 8), pos + 1, "float")
      [] stream[pos] = TYPE_STR ->
            unpack_text(stream, unpack_I(read(stream, pos + 1, 4), pos + 1))
      [] stream[pos] = TYPE_LIST ->
            unpack_container(stream, "list", unpack_I(read(stream, pos + 1, 4), pos + 1))
      [] stream[pos] = TYPE_TUPLE ->
            unpack_container(stream, "tuple", unpack_I(read(stream, pos + 1, 4), pos + 1))
      [] stream[pos] = TYPE_DICT ->
            unpack_container(stream, "dict", unpack_I(read(stream, pos + 1, 4), pos + 1))
      [] stream[pos] = TYPE_PATH ->
            as_path(unpack_text(stream, unpack_I(read(stream, pos + 1, 4), pos + 1)))
      [] stream[pos] = TYPE_ENUM ->
            unpack_enum(stream,
                        unpack_text(stream, unpack_I(read(stream, pos + 1, 4), pos + 1)))
      [] stream[pos] = TYPE_BASEPARAMS ->
            unpack_params(stream,
                          unpack_text(stream, unpack_I(read(stream, pos + 1, 4), pos + 1)))
      [] stream[pos] = TYPE_BYTES ->
            unpack_bytes(stream, unpack_I(read(stream, pos + 1, 4), pos + 1))
      [] stream[pos] = TYPE_SET ->
            unpack_container(stream, "set", unpack_I(read(stream, pos + 1, 4), pos + 1))

(***************************************************************************)
(* The inputs of the object model.                                         *)
(***************************************************************************)
Item(name, value) == VItem(name, value)

\* the (changed_params, conversion_from_type) pairs offered to an override
OverrideInputs ==
    { <<<<>>, PYTHON_OBJECT>>,
      <<<<Item("i", VInt(5))>>, PYTHON_OBJECT>>,
      <<<<Item("i", VStr(<<55>>))>>, STR>>,
      <<<<Item("i", VInt(5)), Item("zz", VInt(1))>>, PYTHON_OBJECT>>,
      <<<<Item("x", VInt(2))>>, PYTHON_OBJECT>>,
      <<<<Item("x", VStr(<<49, 46, 53>>))>>, STR>>,
      <<<<Item("x", VInt(3)), Item("bp", VInt(7))>>, PYTHON_OBJECT>>,
      <<<<Item("bp", VDict(<<Item("i", VInt(5))>>))>>, DUMPABLE>>,
      <<<<Item("bu", VDict(<<Item("i", VInt(5))>>)), Item("x", VInt(2))>>, DUMPABLE>>,
      <<<<Item("bu", VRef(1))>>, PYTHON_OBJECT>>,
      <<<<Item("bu", VNone)>>, DUMPABLE>> }

\* the (key, value) pairs offered to a direct assignment  obj.key = value
AssignInputs ==
    { <<"i", VInt(7)>>, <<"i", VStr(<<97>>)>>, <<"x", VFloat(3, -1)>>,
      <<"bu", VRef(2)>>, <<"bp", VNone>>, <<"zz", VInt(1)>> }

Objects == 1..Len(heap)

NoOp == [op |-> "none", o |-> 0, ok |-> TRUE, items |-> <<>>, mode |-> "",
         key |-> "", value |-> VNone]

(***************************************************************************)
(* The state machine of parametric/_base_params.py.                        *)
(***************************************************************************)
\* the state after the class bodies of A and B have run: the two A()
InitHeap == construct(construct(<<>>, "A").h, "A").h

Init ==
    /\ heap = InitHeap
    /\ last = NoOp
    /\ steps = 0
    /\ blocks = <<>>
    /\ cin = VNone /\ cstream = <<>> /\ cout = VNone
    /\ tnode = IntNode /\ tin = VNone /\ tmode = "" /\ tout = VNone

Others == <<blocks, cin, cstream, cout, tnode, tin, tmode, tout>>

\* cls()
Construct(cls) ==
    LET r == construct(heap, cls)
    IN /\ steps < MaxSteps
       /\ Len(r.h) <= MaxObjs
       /\ heap' = r.h
       /\ last' = [NoOp EXCEPT !.op = "construct", !.o = Len(heap) + 1, !.ok = r.ok]
       /\ steps' = steps + 1
       /\ UNCHANGED Others

\* obj.key = value
Assign(o, key, value) ==
    LET r == setattr(heap, o, key, value)
    IN /\ steps < MaxSteps
       /\ heap' = r.h
       /\ last' = [NoOp EXCEPT !.op = "assign", !.o = o, !.ok = r.ok,
                               !.key = key, !.value = value]
       /\ steps' = steps + 1
       /\ UNCHANGED Others

\* obj._override_from_dict(changed_params, conversion_from_type)
Override(o, changed_params, conversion_from_type) ==
    LET r == override_from_dict(heap, o, changed_params, conversion_from_type)
    IN /\ steps < MaxSteps
       /\ Len(r.h) <= MaxObjs
       /\ heap' = r.h
       /\ last' = [NoOp EXCEPT !.op = "override", !.o = o, !.ok = r.ok,
                               !.items = changed_params, !.mode = conversion_from_type]
       /\ steps' = steps + 1
       /\ UNCHANGED Others

\* obj.freeze()
Freeze(o) ==
    LET r == freeze(heap, o)
    IN /\ steps < MaxSteps
       /\ heap' = r.h
       /\ last' = [NoOp EXCEPT !.op = "freeze", !.o = o, !.ok = r.ok]
       /\ steps' = steps + 1
       /\ UNCHANGED Others

Next ==
    \/ \E cls \in ClassNames : Construct(cls)
    \/ \E o \in Objects, a \in AssignInputs : Assign(o, a[1], a[2])
    \/ \E o \in Objects, m \in OverrideInputs : Override(o, m[1], m[2])
    \/ \E o \in Objects : Freeze(o)

Spec == Init /\ [][Next]_vars

(***************************************************************************)
(* The state machine of parametric/_base_params2.py with the Override      *)
(* blocks of parametric/_context_manager.py.  blocks is the stack of the   *)
(* instances of the open  with Override(params):  blocks, innermost last.  *)
(***************************************************************************)
\* the state after the class bodies of A2 and B2 have run: the two A2()
InitHeap2 == construct2(construct2(<<>>, "A2").h, "A2").h

Init2 ==
    /\ heap = InitHeap2
    /\ last = NoOp
    /\ steps = 0
    /\ blocks = <<>>
    /\ cin = VNone /\ cstream = <<>> /\ cout = VNone
    /\ tnode = IntNode /\ tin = VNone /\ tmode = "" /\ tout = VNone

Rest == <<cin, cstream, cout, tnode, tin, tmode, tout>>

\* cls()
Construct2(cls) ==
    LET r == construct2(heap, cls)
    IN /\ steps < MaxSteps
       /\ Len(r.h) <= MaxObjs
       /\ heap' = r.h
       /\ last' = [NoOp EXCEPT !.op = "construct", !.o = Len(heap) + 1, !.ok = r.ok]
       /\ steps' = steps + 1
       /\ UNCHANGED Others

\* obj._override_from_dict(data, conversion_from_type)
Override2(o, data, conversion_from_type) ==
    LET r == override_from_dict2(heap, o, data, conversion_from_type)
    IN /\ steps < MaxSteps
       /\ Len(r.h) <= MaxObjs
       /\ heap' = r.h
       /\ last' = [NoOp EXCEPT !.op = "override", !.o = o, !.ok = r.ok,
                               !.items = data, !.mode = conversion_from_type]
       /\ steps' = steps + 1
       /\ UNCHANGED Others

\* with Override(o):  Override.__init__ and Override.__enter__
Enter(o) ==
    /\ steps < MaxSteps
    /\ Len(blocks) < MaxBlocks
    /\ heap' = enter(heap, o)
    /\ blocks' = Append(blocks, o)
    /\ last' = [NoOp EXCEPT !.op = "enter", !.o = o]
    /\ steps' = steps + 1
    /\ UNCHANGED Rest

\* the innermost block ends (its body is over or has raised): Override.__exit__
Exit ==
    /\ steps < MaxSteps
    /\ blocks # <<>>
    /\ heap' = exit(blocks[Len(blocks)], Res(TRUE, VNone, heap)).h
    /\ blocks' = SubSeq(blocks, 1, Len(blocks) - 1)
    /\ last' = [NoOp EXCEPT !.op = "exit", !.o = blocks[Len(blocks)]]
    /\ steps' = steps + 1
    /\ UNCHANGED Rest

Next2 ==
    \/ \E cls \in ClassNames2 : Construct2(cls)
    \/ \E o \in Objects, a \in AssignInputs : Assign(o, a[1], a[2])
    \/ \E o \in Objects, m \in OverrideInputs : Override2(o, m[1], m[2])
    \/ \E o \in Objects : Enter(o)
    \/ Exit

Spec2 == Init2 /\ [][Next2]_vars

(***************************************************************************)
(* The codec at work: a value is packed into a stream, the stream is cut   *)
(* short or its tag is replaced, and the stream is unpacked.               *)
(*   cin      the value packed                                             *)
(*   cstream  the bytes of the stream                                      *)
(*   cout     the outcome of unpack_obj                                    *)
(* last.key tells what the stream is: "whole" as pack_obj wrote it,        *)
(* "truncated" a proper prefix, "tag" with an undefined first byte.        *)
(***************************************************************************)
\* the objects a packed value refers to: the two A() and an E()
HeapCodec == construct(InitHeap, "E").h

Color == <<67, 111, 108, 111, 114>>
RED == <<82, 69, 68>>

PlainValues ==
    { VNone, VBool(TRUE), VBool(FALSE),
      VInt(0), VInt(5), VInt(-1), VInt(-300), VInt(70000),
      VFloat(0, 0), VFloat(3, -1), VFloat(-5, 2), VFloat(1, 0),
      VStr(<<>>), VStr(<<97, 98>>), VStr(<<233, 8364>>), VStr(<<128512, 97>>),
      VBytes(<<0, 255>>), VPath(<<97, 47, 98>>),
      VTuple(<<>>), VTuple(<<VInt(1), VStr(<<97>>)>>),
      VList(<<VInt(1), VList(<<VNone>>)>>),
      VSet(<<VInt(1), VStr(<<97>>)>>),
      VDict(<<VPair(VStr(<<97>>), VInt(1)), VPair(VInt(2), VTuple(<<VBool(TRUE)>>))>>),
      VDict(<<VItem("x", VFloat(3, -1))>>),
      VTuple(<<VList(<<VDict(<<VPair(VStr(<<233>>), VInt(-1))>>)>>),
               VSet(<<VTuple(<<VInt(-300), VFloat(-5, 2)>>)>>),
               VBytes(<<1>>)>>) }

CodecValues ==
    PlainValues \cup
    { VEnum(Color, RED), VList(<<VEnum(Color, RED), VInt(1)>>),
      VRef(1), VRef(3), VTuple(<<VRef(3)>>),
      TypeNodeValue(IntNode) }

NoResult == Dec(FALSE, VNone, 0)

InitCodec ==
    /\ heap = HeapCodec
    /\ last = NoOp
    /\ steps = 0
    /\ blocks = <<>>
    /\ cin \in CodecValues
    /\ cstream = <<>>
    /\ cout = NoResult
    /\ tnode = IntNode /\ tin = VNone /\ tmode = "" /\ tout = VNone

NotCodec == <<heap, steps, blocks, tnode, tin, tmode, tout>>

\* pack_obj(cin, stream) on an empty stream
Pack ==
    /\ last.op = "none"
    /\ cstream' = pack_obj(heap, cin).b
    /\ last' = [NoOp EXCEPT !.op = "pack", !.ok = pack_obj(heap, cin).ok, !.key = "whole"]
    /\ UNCHANGED <<cin, cout>>
    /\ UNCHANGED NotCodec

\* the stream ends after its first n bytes
Truncate(n) ==
    /\ last.op = "pack" /\ last.ok
    /\ n < Len(cstream)
    /\ cstream' = SubSeq(cstream, 1, n)
    /\ last' = [NoOp EXCEPT !.op = "truncate", !.key = "truncated"]
    /\ UNCHANGED <<cin, cout>>
    /\ UNCHANGED NotCodec

\* the first byte of the stream is not a defined tag
UnknownTags == {16, 128, 255}

BadTag(tag) ==
    /\ last.op = "pack" /\ last.ok
    /\ cstream' = [cstream EXCEPT ![1] = tag]
    /\ last' = [NoOp EXCEPT !.op = "badtag", !.key = "tag"]
    /\ UNCHANGED <<cin, cout>>
    /\ UNCHANGED NotCodec

\* unpack_obj(stream) on the stream from its start
Unpack ==
    /\ \/ last.op = "pack" /\ last.ok
       \/ last.op \in {"truncate", "badtag"}
    /\ cout' = unpack_obj(cstream, 1)
    /\ last' = [NoOp EXCEPT !.op = "unpack", !.ok = unpack_obj(cstream, 1).ok,
                            !.key = last.key]
    /\ UNCHANGED <<cin, cstream>>
    /\ UNCHANGED NotCodec

NextCodec ==
    \/ Pack
    \/ \E n \in 0..Len(cstream) : Truncate(n)
    \/ \E tag \in UnknownTags : BadTag(tag)
    \/ Unpack

SpecCodec == InitCodec /\ [][NextCodec]_vars

(***************************************************************************)
(* The coercion engine at work (parametric/_type_node.py): one value is    *)
(* offered to one type node in one conversion mode.                        *)
(*   tnode  the type node         tmode  the ConversionFromType            *)
(*   tin    the value offered     tout   the outcome: ok and the value     *)
(***************************************************************************)
ScalarNodes == {IntNode, FloatNode, StrNode, BoolNode, BytesNode, PathNode, NoneTypeNode}

CoerceNodes ==
    ScalarNodes \cup
    { TupleNode(<<IntNode, FloatNode>>, FALSE), TupleNode(<<IntNode>>, FALSE),
      TupleNode(<<IntNode>>, TRUE),
      UnionNode(<<IntNode, FloatNode>>), UnionNode(<<BoolNode, IntNode>>),
      UnionNode(<<StrNode, IntNode>>), BaseParamsNode("A"),
      UnionNode(<<FloatNode, IntNode>>), UnionNode(<<StrNode, BoolNode, NoneTypeNode>>),
      UnionNode(<<StrNode, TupleNode(<<IntNode>>, TRUE), PathNode>>),
      UnionNode(<<BaseParamsNode("A"), NoneTypeNode>>),
      TupleNode(<<StrNode>>, TRUE) }

CoerceInputs ==
    { VNone, VBool(TRUE), VBool(FALSE), VInt(0), VInt(1), VInt(5),
      VFloat(3, -1), VFloat(1, 0),
      VStr(<<49>>), VStr(<<49, 46, 53>>), VStr(<<116, 114, 117, 101>>),
      VStr(<<32, 89, 101, 115, 32>>), VStr(<<110, 111, 110, 101>>),
      VStr(<<97, 98, 99>>),
      VStr(<<48>>), VStr(<<45, 49>>), VStr(<<111, 70, 102>>),
      VBytes(<<97>>), VPath(<<97>>),
      VTuple(<<>>), VTuple(<<VInt(1)>>), VTuple(<<VInt(1), VInt(2)>>),
      VList(<<VInt(1), VInt(2)>>),
      VRef(1), VDict(<<VItem("i", VInt(5))>>) }

InitCoerce ==
    /\ heap = InitHeap
    /\ last = NoOp
    /\ steps = 0
    /\ blocks = <<>>
    /\ cin = VNone /\ cstream = <<>> /\ cout = NoResult
    /\ tnode \in CoerceNodes
    /\ tin \in CoerceInputs
    /\ tmode \in {PYTHON_OBJECT, DUMPABLE, STR, TO_DUMPABLE}
    /\ tout = [ok |-> FALSE, v |-> VNone]

\* node.from_python_object(value), node.from_dumpable(value),
\* node.from_str(value) or node.to_dumpable(value)
Coerce ==
    LET r == convert(tmode, tnode, tin, heap)
    IN /\ last.op = "none"
       /\ tout' = [ok |-> r.ok, v |-> r.v]
       /\ heap' = r.h
       /\ last' = [NoOp EXCEPT !.op = "coerce", !.ok = r.ok]
       /\ UNCHANGED <<steps, blocks, cin, cstream, cout, tnode, tin, tmode>>

NextCoerce == Coerce

SpecCoerce == InitCoerce /\ [][NextCoerce]_vars


(***************************************************************************)
(* The type wranglers (parametric/_wrangle_type.py, parametric/main.py and *)
(* parametric/_process.py).  A type hint is a record [t, args]: t is the   *)
(* kind of the hint ("int" ... "none", "union", "tuple", "ellipsis") and   *)
(* args the hints between its brackets, in declared order.                 *)
(***************************************************************************)
Hint(t, args) == [t |-> t, args |-> args]

int == Hint("int", <<>>)
float == Hint("float", <<>>)
bool == Hint("bool", <<>>)
str == Hint("str", <<>>)
bytes == Hint("bytes", <<>>)
PathHint == Hint("path", <<>>)
NoneType == Hint("none", <<>>)
Ellipsis == Hint("ellipsis", <<>>)
Union(inner_args) == Hint("union", inner_args)
tuple(inner_args) == Hint("tuple", inner_args)

\* the members of _IMMUTABLE_BASE_TYPES (complex is not a type of the model)
IMMUTABLE_BASE_TYPES == {"int", "float", "bool", "str", "bytes", "path", "none"}

RECURSIVE digits(_)
\* the decimal digits of a natural number
digits(n) == IF n < 10 THEN <<48 + n>> ELSE digits(n \div 10) \o <<48 + (n % 10)>>

RECURSIVE pow(_, _)
pow(b, k) == IF k = 0 THEN 1 ELSE b * pow(b, k - 1)

RECURSIVE zfill(_, _)
zfill(c, k) == IF Len(c) >= k THEN c ELSE zfill(<<48>> \o c, k)

\* str(n) for an int
str_of_int(n) == IF n < 0 THEN <<45>> \o digits(-n) ELSE digits(n)

\* int(value) for a float m * 2^x: the fraction is cut off, towards zero
trunc(value) ==
    LET a == IF value.n < 0 THEN -value.n ELSE value.n
        s == IF value.n < 0 THEN -1 ELSE 1
    IN IF value.x >= 0 THEN VInt(value.n * pow(2, value.x))
       ELSE VInt(s * (a \div pow(2, -value.x)))

\* repr(value) for a float m * 2^x with a short fraction: the integer part,
\* a point, and the exact decimal fraction (".0" for a whole number)
str_of_float(value) ==
    LET a == IF value.n < 0 THEN -value.n ELSE value.n
        k == IF value.x < 0 THEN -value.x ELSE 0
        whole == IF value.x >= 0 THEN a * pow(2, value.x) ELSE a \div pow(2, k)
        frac == IF k = 0 THEN <<48>>
                ELSE zfill(digits((a % pow(2, k)) * pow(5, k)), k)
    IN (IF value.n < 0 THEN <<45>> ELSE <<>>) \o digits(whole) \o <<46>> \o frac

RECURSIVE repr(_)
RECURSIVE repr_items(_, _)
\* the reprs of the elements of a tuple or a list, joined by ", "
repr_items(e, i) ==
    IF i > Len(e) THEN <<>>
    ELSE (IF i > 1 THEN <<44, 32>> ELSE <<>>) \o repr(e[i]) \o repr_items(e, i + 1)

\* repr(value); text and bytes of the model hold no quote and no escape
repr(value) ==
    CASE value.k = "none" -> <<78, 111, 110, 101>>
      [] value.k = "bool" -> IF value.n = 1 THEN <<84, 114, 117, 101>>
                             ELSE <<70, 97, 108, 115, 101>>
      [] value.k = "int" -> str_of_int(value.n)
      [] value.k = "float" -> str_of_float(value)
      [] value.k = "str" -> <<39>> \o value.c \o <<39>>
      [] value.k = "bytes" -> <<98, 39>> \o value.c \o <<39>>
      [] value.k = "path" ->
            <<80, 111, 115, 105, 120, 80, 97, 116, 104, 40, 39>> \o value.c \o <<39, 41>>
      [] value.k = "tuple" ->
            <<40>> \o repr_items(value.e, 1)
                   \o (IF Len(value.e) = 1 THEN <<44>> ELSE <<>>) \o <<41>>
      [] value.k = "list" -> <<91>> \o repr_items(value.e, 1) \o <<93>>

\* str(value)
str_of(value) == IF value.k \in {"str", "path"} THEN value.c ELSE repr(value)

\* bool(value): the truth value
truth(value) ==
    CASE value.k = "none" -> FALSE
      [] value.k \in {"bool", "int", "float"} -> value.n # 0
      [] value.k \in {"str", "bytes"} -> value.c # <<>>
      [] value.k \in {"tuple", "list", "set", "dict"} -> value.e # <<>>
      [] OTHER -> TRUE

Called(ok, v) == [ok |-> ok, v |-> v]
CallError == Called(FALSE, VNone)

\* target_type(value) for a base type: the constructors int, float, bool,
\* str, bytes, Path and NoneType applied to a value that is not an instance
\* of the type (ok is FALSE when the call raises ValueError or TypeError)
construct_base(t, value) ==
    CASE t = "int" ->
            CASE value.k = "float" -> Called(TRUE, trunc(value))
              [] value.k \in {"str", "bytes"} -> int_of_str(value.c)
              [] OTHER -> CallError
      [] t = "float" ->
            CASE value.k \in {"int", "bool"} -> Called(TRUE, to_float(value))
              [] value.k \in {"str", "bytes"} -> float_of_str(value.c)
              [] OTHER -> CallError
      [] t = "bool" -> Called(TRUE, VBool(truth(value)))
      [] t = "str" -> Called(TRUE, VStr(str_of(value)))
      [] t = "bytes" ->
            CASE value.k \in {"int", "bool"} ->
                    IF value.n >= 0 THEN Called(TRUE, VBytes([i \in 1..value.n |-> 0]))
                    ELSE CallError
              [] value.k \in {"tuple", "list"} ->
                    IF \A i \in 1..Len(value.e) :
                          value.e[i].k \in {"int", "bool"} /\ value.e[i].n \in 0..255
                    THEN Called(TRUE, VBytes([i \in 1..Len(value.e) |-> value.e[i].n]))
                    ELSE CallError
              [] value.k = "path" ->
                    IF encode(value.c).ok THEN Called(TRUE, VBytes(encode(value.c).b))
                    ELSE CallError
              [] OTHER -> CallError
      [] t = "path" ->
            IF value.k = "str" THEN Called(TRUE, Path(value.c)) ELSE CallError
      [] t = "none" -> CallError

WrangleTypeReturn(converted_value, is_coerced) ==
    [ok |-> TRUE, converted_value |-> converted_value, is_coerced |-> is_coerced]
\* a call of wrangle_type that raises
WrangleError == [ok |-> FALSE, converted_value |-> VNone, is_coerced |-> FALSE]

\* _handle_base_type: an instance passes as it is, any other value goes
\* through the constructor of the target type
handle_base_type(value, target_type) ==
    IF IsInstance(value, target_type.t) THEN WrangleTypeReturn(value, FALSE)
    ELSE IF construct_base(target_type.t, value).ok
    THEN WrangleTypeReturn(construct_base(target_type.t, value).v, TRUE)
    ELSE WrangleError

RECURSIVE wrangle_type(_, _)
RECURSIVE handle_union_type(_, _, _, _)
RECURSIVE handle_tuple_type(_, _, _, _, _)

\* the body of the loop of _handle_union_type once member i has answered r
handle_union_step(value, inner_args, i, best_result, r) ==
    IF ~r.ok THEN handle_union_type(value, inner_args, i + 1, best_result)
    ELSE IF ~r.is_coerced THEN r
    ELSE handle_union_type(value, inner_args, i + 1, r.converted_value)

\* _handle_union_type from member i on; best_result starts as EMPTY_PARAM
handle_union_type(value, inner_args, i, best_result) ==
    IF i > Len(inner_args)
    THEN IF best_result # VEmpty THEN WrangleTypeReturn(best_result, TRUE)
         ELSE WrangleError
    ELSE handle_union_step(value, inner_args, i, best_result,
                           wrangle_type(value, inner_args[i]))

\* one element of the list comprehension of _handle_tuple_type
handle_tuple_step(elems, types, i, acc, coerced, r) ==
    IF ~r.ok THEN WrangleError
    ELSE handle_tuple_type(elems, types, i + 1, Append(acc, r.converted_value),
                           coerced \/ r.is_coerced)

\* _handle_tuple_type over the pairs (elems[i], types[i]) of its zip
handle_tuple_type(elems, types, i, acc, coerced) ==
    IF i > Len(elems) \/ i > Len(types)
    THEN WrangleTypeReturn(VTuple(acc), coerced)
    ELSE handle_tuple_step(elems, types, i, acc, coerced,
                           wrangle_type(elems[i], types[i]))

\* wrangle_type(param_name, value, target_type)
wrangle_type(value, target_type) ==
    CASE target_type.t \in IMMUTABLE_BASE_TYPES -> handle_base_type(value, target_type)
      [] target_type.t = "union" ->
            handle_union_type(value, target_type.args, 1, VEmpty)
      [] target_type.t = "tuple" ->
            IF ~Iterable(value) THEN WrangleError
            ELSE IF target_type.args[Len(target_type.args)] = Ellipsis
            THEN handle_tuple_type(Elements(value),
                                   [i \in 1..Len(Elements(value)) |-> target_type.args[1]],
                                   1, <<>>, FALSE)
            ELSE handle_tuple_type(Elements(value), target_type.args, 1, <<>>, FALSE)
      [] OTHER -> WrangleError

\* the _ProcessingResult that process_field hands back for a union
ProcessingResult(coerced_value) == Val("processing_result", 0, 0, "", <<>>, <<coerced_value>>)

\* BasicTypeProcessor.__call__ and the return of process_field after it
BasicTypeProcessor(annotation, value) ==
    IF IsInstance(value, annotation.t) THEN Called(TRUE, value)
    ELSE construct_base(annotation.t, value)

SEQUENCE_TYPES == {"tuple"}

RECURSIVE union_composition(_, _, _, _)
\* the validation loop of _process_union_type: TRUE when it does not raise
union_composition(inner_types, i, basic, sequence) ==
    IF i > Len(inner_types) THEN TRUE
    ELSE IF inner_types[i].t = "none"
    THEN union_composition(inner_types, i + 1, basic, sequence)
    ELSE IF inner_types[i].t \in SEQUENCE_TYPES
    THEN ~sequence /\ union_composition(inner_types, i + 1, basic, TRUE)
    ELSE ~basic /\ union_composition(inner_types, i + 1, TRUE, sequence)

RECURSIVE process_field(_, _)
RECURSIVE process_union_type(_, _, _)
RECURSIVE process_sequence_elements(_, _, _, _, _)

\* the conversion loop of _process_union_type once member i has answered r
process_union_step(inner_types, value, i, r) ==
    IF r.ok THEN Called(TRUE, ProcessingResult(r.v))
    ELSE process_union_type(inner_types, value, i + 1)

\* the conversion loop of _process_union_type from member i on
process_union_type(inner_types, value, i) ==
    IF i > Len(inner_types) THEN CallError
    ELSE process_union_step(inner_types, value, i, process_field(inner_types[i], value))

process_sequence_step(value, inner_types, is_variadic, i, res, r) ==
    IF ~r.ok THEN CallError
    ELSE process_sequence_elements(value, inner_types, is_variadic, i + 1,
                                   Append(res, IF r.v = VNone THEN value[i] ELSE r.v))

\* _process_sequence_elements over the elements of value from element i on
process_sequence_elements(value, inner_types, is_variadic, i, res) ==
    IF i > Len(value) THEN Called(TRUE, VTuple(res))
    ELSE process_sequence_step(value, inner_types, is_variadic, i, res,
            process_field(inner_types[IF is_variadic THEN 1 ELSE i], value[i]))

\* _process_tuple_elements
process_tuple_elements(value, inner_types) ==
    LET is_variadic == inner_types[Len(inner_types)] = Ellipsis
    IN IF is_variadic /\ Len(inner_types) # 2 THEN CallError
       ELSE IF ~is_variadic /\ Len(inner_types) # Len(value) THEN CallError
       ELSE process_sequence_elements(value, inner_types, is_variadic, 1, <<>>)

\* process_field(name, annotation, value, strict)
process_field(annotation, value) ==
    CASE annotation.t = "ellipsis" -> CallError
      [] annotation.t \in IMMUTABLE_BASE_TYPES -> BasicTypeProcessor(annotation, value)
      [] annotation.t = "tuple" ->
            IF value.k \notin {"list", "tuple", "set"} THEN CallError
            ELSE process_tuple_elements(value.e, annotation.args)
      [] annotation.t = "union" ->
            IF ~union_composition(annotation.args, 1, FALSE, FALSE) THEN CallError
            ELSE process_union_type(annotation.args, value, 1)
      [] OTHER -> CallError

\* the outcome of parse_typehint: a type node, or EllipsisTypeError
\* (ellipsis) or another exception
Parsed(ok, node, ellipsis) == [ok |-> ok, node |-> node, ellipsis |-> ellipsis]

RECURSIVE parse_typehint(_)
RECURSIVE parse_tuple(_, _, _, _)

\* the loop of the tuple branch of parse_typehint once argument idx is parsed
parse_tuple_step(inner_args, idx, parsed_args, is_ends_with_ellipsis, r) ==
    IF r.ok THEN parse_tuple(inner_args, idx + 1, Append(parsed_args, r.node),
                             is_ends_with_ellipsis)
    ELSE IF r.ellipsis /\ Len(inner_args) = 2 /\ idx = 2
    THEN parse_tuple(inner_args, idx + 1, parsed_args, TRUE)
    ELSE r

\* the tuple branch of parse_typehint from argument idx on (idx counts from 1)
parse_tuple(inner_args, idx, parsed_args, is_ends_with_ellipsis) ==
    IF idx > Len(inner_args)
    THEN Parsed(TRUE, TupleNode(parsed_args, is_ends_with_ellipsis), FALSE)
    ELSE parse_tuple_step(inner_args, idx, parsed_args, is_ends_with_ellipsis,
                          parse_typehint(inner_args[idx]))

RECURSIVE parse_args(_, _, _)
parse_args_step(inner_args, i, acc, r) ==
    IF r.ok THEN parse_args(inner_args, i + 1, Append(acc, r.node)) ELSE r

\* [parse_typehint(name, arg) for arg in inner_args] of the union branch
parse_args(inner_args, i, acc) ==
    IF i > Len(inner_args) THEN Parsed(TRUE, UnionNode(acc), FALSE)
    ELSE parse_args_step(inner_args, i, acc, parse_typehint(inner_args[i]))

\* parse_typehint(name, typehint)
parse_typehint(typehint) ==
    CASE typehint.t = "ellipsis" -> Parsed(FALSE, NoneTypeNode, TRUE)
      [] typehint.t = "int" -> Parsed(TRUE, IntNode, FALSE)
      [] typehint.t = "float" -> Parsed(TRUE, FloatNode, FALSE)
      [] typehint.t = "bool" -> Parsed(TRUE, BoolNode, FALSE)
      [] typehint.t = "str" -> Parsed(TRUE, StrNode, FALSE)
      [] typehint.t = "bytes" -> Parsed(TRUE, BytesNode, FALSE)
      [] typehint.t = "path" -> Parsed(TRUE, PathNode, FALSE)
      [] typehint.t = "none" -> Parsed(TRUE, NoneTypeNode, FALSE)
      [] typehint.t = "union" -> parse_args(typehint.args, 1, <<>>)
      [] typehint.t = "tuple" -> parse_tuple(typehint.args, 1, <<>>, FALSE)
      [] OTHER -> Parsed(FALSE, NoneTypeNode, FALSE)

(***************************************************************************)
(* The wranglers at work: one value is offered to one type hint.           *)
(*   tnode  the type hint         tin   the value offered                  *)
(*   tout   the outcome of the call named by last.op                       *)
(***************************************************************************)
BaseHints == {int, float, bool, str, bytes, PathHint, NoneType}

WrangleHints ==
    BaseHints \cup
    { Union(<<str, int>>), Union(<<int, str>>), Union(<<float, int>>),
      Union(<<int, float>>), Union(<<str, float, int>>), Union(<<float, str, int>>),
      Union(<<bool, int>>), Union(<<str, NoneType>>), Union(<<int, NoneType>>),
      Union(<<str, tuple(<<int, int>>), int>>), Union(<<tuple(<<str, Ellipsis>>), str>>),
      Union(<<str, PathHint>>), Union(<<PathHint, str, NoneType>>),
      Union(<<tuple(<<int, int>>), tuple(<<int, Ellipsis>>)>>),
      Union(<<int, tuple(<<int>>), tuple(<<float, Ellipsis>>)>>),
      tuple(<<int, int>>), tuple(<<int, Ellipsis>>), tuple(<<int, float>>),
      tuple(<<int>>), tuple(<<str, str>>) }

WrangleInputs ==
    { VNone, VBool(TRUE), VBool(FALSE), VInt(0), VInt(1), VInt(-2), VInt(12),
      VFloat(3, -1), VFloat(1, 0), VFloat(-7, -2),
      VStr(<<49>>), VStr(<<49, 46, 53>>), VStr(<<97, 98>>), VStr(<<>>),
      VBytes(<<49>>), VPath(<<97>>),
      VTuple(<<>>), VTuple(<<VInt(1)>>), VTuple(<<VInt(1), VInt(2)>>),
      VTuple(<<VInt(1), VInt(2), VInt(3)>>), VTuple(<<VInt(1), VStr(<<97>>)>>),
      VTuple(<<VStr(<<49>>), VFloat(3, -1)>>),
      VList(<<VInt(1), VInt(2)>>) }

InitWrangle ==
    /\ heap = InitHeap
    /\ last = NoOp
    /\ steps = 0
    /\ blocks = <<>>
    /\ cin = VNone /\ cstream = <<>> /\ cout = NoResult
    /\ tnode \in WrangleHints
    /\ tin \in WrangleInputs
    /\ tmode = PYTHON_OBJECT
    /\ tout = WrangleError

\* wrangle_type("name", value, target_type)
Wrangle ==
    LET r == wrangle_type(tin, tnode)
    IN /\ last.op = "none"
       /\ tout' = r
       /\ last' = [NoOp EXCEPT !.op = "wrangle_type", !.ok = r.ok]
       /\ UNCHANGED <<heap, steps, blocks, cin, cstream, cout, tnode, tin, tmode>>

\* process_field("name", annotation, value, strict)
ProcessField ==
    LET r == process_field(tnode, tin)
    IN /\ last.op = "none"
       /\ tout' = r
       /\ last' = [NoOp EXCEPT !.op = "process_field", !.ok = r.ok]
       /\ UNCHANGED <<heap, steps, blocks, cin, cstream, cout, tnode, tin, tmode>>

\* parse_typehint("name", typehint)
ParseTypehint ==
    LET r == parse_typehint(tnode)
    IN /\ last.op = "none"
       /\ tout' = r
       /\ last' = [NoOp EXCEPT !.op = "parse_typehint", !.ok = r.ok]
       /\ UNCHANGED <<heap, steps, blocks, cin, cstream, cout, tnode, tin, tmode>>

NextWrangle ==
    \/ Wrangle
    \/ ProcessField
    \/ ParseTypehint

SpecWrangle == InitWrangle /\ [][NextWrangle]_vars


(***************************************************************************)
(* The reports of a params object: to_dict, get_overrides_dict and __eq__  *)
(* of parametric/_base_params.py, get_non_defaults of                      *)
(* parametric/_base_params2.py.  A dict of names is a VDict of items in    *)
(* insertion order.                                                        *)
(***************************************************************************)
RECURSIVE to_dict(_, _)
\* the value to_dict stores for a field: the to_dict of a params object
to_dict_value(h, value) == IF value.k = "ref" THEN to_dict(h, value.n) ELSE value

\* BaseParams.to_dict
to_dict(h, o) ==
    LET names == SelectSeq(FieldNames(h[o].cls), LAMBDA name : HasValue(h, o, name))
    IN VDict([i \in 1..Len(names) |-> VItem(names[i], to_dict_value(h, h[o].d[names[i]]))])

\* d[name] for a dict of names (the name is a key of d)
item_of(d, name) == ValueOf(d.e[CHOOSE i \in 1..Len(d.e) : d.e[i].s = name])
Keys(d) == {d.e[i].s : i \in 1..Len(d.e)}

\* d[name] = value on the items of a dict of names
put(items, name, value) ==
    IF \E i \in 1..Len(items) : items[i].s = name
    THEN [i \in 1..Len(items) |-> IF items[i].s = name THEN VItem(name, value) ELSE items[i]]
    ELSE Append(items, VItem(name, value))

RECURSIVE overrides_loop(_, _, _, _, _)
\* the loop of get_overrides_dict over the declared names, from name i on.
\* res_dict[name] and self._default_values[name] are read without a test:
\* a name missing from either is a KeyError.
overrides_loop(h, o, res_dict, i, overrides_dict) ==
    IF i > Len(FieldNames(h[o].cls)) THEN Called(TRUE, VDict(overrides_dict))
    ELSE IF FieldNames(h[o].cls)[i] \notin Keys(res_dict) THEN CallError
    ELSE IF ~HasDefault(h, o, FieldNames(h[o].cls)[i]) THEN CallError
    ELSE IF ~PyEq(h, item_of(res_dict, FieldNames(h[o].cls)[i]),
                  h, h[o].defaults[FieldNames(h[o].cls)[i]])
    THEN overrides_loop(h, o, res_dict, i + 1,
                        put(overrides_dict, FieldNames(h[o].cls)[i],
                            item_of(res_dict, FieldNames(h[o].cls)[i])))
    ELSE overrides_loop(h, o, res_dict, i + 1, overrides_dict)

\* BaseParams.get_overrides_dict (the deep copy it returns equals the dict)
get_overrides_dict(h, o) == overrides_loop(h, o, to_dict(h, o), 1, <<>>)

\* BaseParams.get_non_defaults of parametric/_base_params2.py
get_non_defaults(h, o) ==
    LET names == SelectSeq(FieldNames(h[o].cls),
                           LAMBDA name : /\ HasDefault(h, o, name)
                                         /\ ~PyEq(h, h[o].defaults[name], h, h[o].d[name]))
    IN Called(TRUE, VDict([i \in 1..Len(names) |-> VItem(names[i], h[o].d[names[i]])]))

\* self == other: BaseParams.__eq__ for any other value
eq_value(h, self, other) == PyEq(h, VRef(self), h, other)

(***************************************************************************)
(* The reports at work: a few objects are made and overridden, then one    *)
(* report is taken.  cout is the outcome of the report.                    *)
(***************************************************************************)
MaxChanges == 2

\* the class bodies of A, B, N and C have run
HeapReport == construct(InitHeap, "N").h

ReportInputs ==
    OverrideInputs \cup
    { <<<<Item("bn", VDict(<<Item("j", VInt(7))>>))>>, DUMPABLE>>,
      <<<<Item("j", VInt(7))>>, PYTHON_OBJECT>>,
      <<<<Item("i", VInt(1))>>, PYTHON_OBJECT>>,
      <<<<Item("x", VFloat(1, -1)), Item("bp", VDict(<<Item("i", VInt(5))>>))>>, DUMPABLE>>,
      <<<<Item("bn", VDict(<<Item("j", VInt(7)), Item("zz", VInt(1))>>))>>, DUMPABLE>>,
      <<<<Item("bp", VDict(<<Item("i", VStr(<<97>>))>>))>>, DUMPABLE>> }

\* the classes declared over the BaseParams the heap was built with
ClassesOf(h) ==
    IF h[1].cls \in ClassNames2 THEN ClassNames2 ELSE ClassNames \cup {"N", "C", "D"}

Reports == {"get_overrides_dict", "get_non_defaults", "eq"}

InitReport ==
    /\ heap \in {HeapReport, InitHeap2}
    /\ last = NoOp
    /\ steps = 0
    /\ blocks = <<>>
    /\ cin = VNone /\ cstream = <<>> /\ cout = CallError
    /\ tnode = IntNode /\ tin = VNone /\ tmode = "" /\ tout = VNone

Unreported == <<blocks, cin, cstream, cout, tnode, tin, tmode, tout>>
Untouched == <<heap, steps, blocks, cin, cstream, tnode, tin, tmode, tout>>

\* cls()
Make(cls) ==
    LET r == instantiate(heap, cls)
    IN /\ last.op \notin Reports
       /\ steps < MaxChanges
       /\ Len(r.h) <= MaxObjs
       /\ heap' = r.h
       /\ last' = [NoOp EXCEPT !.op = "construct", !.o = Len(heap) + 1, !.ok = r.ok]
       /\ steps' = steps + 1
       /\ UNCHANGED Unreported

\* obj._override_from_dict(changed_params, conversion_from_type)
Change(o, changed_params, conversion_from_type) ==
    LET r == call_override_from_dict(heap, o, changed_params, conversion_from_type)
    IN /\ last.op \notin Reports
       /\ steps < MaxChanges
       /\ Len(r.h) <= MaxObjs
       /\ heap' = r.h
       /\ last' = [NoOp EXCEPT !.op = "override", !.o = o, !.ok = r.ok,
                               !.items = changed_params, !.mode = conversion_from_type]
       /\ steps' = steps + 1
       /\ UNCHANGED Unreported

\* obj.freeze(), the method of parametric/_base_params.py
CallFreeze(o) ==
    LET r == freeze(heap, o)
    IN /\ last.op \notin Reports
       /\ steps < MaxChanges
       /\ heap[o].cls \notin ClassNames2
       /\ heap' = r.h
       /\ last' = [NoOp EXCEPT !.op = "freeze", !.o = o, !.ok = r.ok]
       /\ steps' = steps + 1
       /\ UNCHANGED Unreported

\* obj.get_overrides_dict()
GetOverridesDict(o) ==
    LET r == get_overrides_dict(heap, o)
    IN /\ last.op \notin Reports
       /\ heap[o].cls \notin ClassNames2
       /\ cout' = r
       /\ last' = [NoOp EXCEPT !.op = "get_overrides_dict", !.o = o, !.ok = r.ok]
       /\ UNCHANGED Untouched

\* obj.get_non_defaults()
GetNonDefaults(o) ==
    LET r == get_non_defaults(heap, o)
    IN /\ last.op \notin Reports
       /\ heap[o].cls \in ClassNames2
       /\ cout' = r
       /\ last' = [NoOp EXCEPT !.op = "get_non_defaults", !.o = o, !.ok = r.ok]
       /\ UNCHANGED Untouched

\* the values an object is compared with: every object and two plain values
Comparands == {VRef(p) : p \in Objects} \cup {VInt(5), VNone}

\* obj == other
Equal(o, other) ==
    /\ last.op \notin Reports
    /\ cout' = Called(TRUE, VBool(eq_value(heap, o, other)))
    /\ last' = [NoOp EXCEPT !.op = "eq", !.o = o, !.value = other]
    /\ UNCHANGED Untouched

NextReport ==
    \/ \E cls \in ClassesOf(heap) : Make(cls)
    \/ \E o \in Objects, m \in ReportInputs : Change(o, m[1], m[2])
    \/ \E o \in Objects : CallFreeze(o)
    \/ \E o \in Objects : GetOverridesDict(o)
    \/ \E o \in Objects : GetNonDefaults(o)
    \/ \E o \in Objects, other \in Comparands : Equal(o, other)

SpecReport == InitReport /\ [][NextReport]_vars


(***************************************************************************)
(* Properties of parametric/_base_params.py.                               *)
(***************************************************************************)
RECURSIVE RefsIn(_)
\* the objects a value holds: itself when it is a reference, and the
\* objects its elements hold
RefsIn(v) ==
    IF v.k = "ref" THEN {v.n}
    ELSE UNION {RefsIn(v.e[i]) : i \in 1..Len(v.e)}

Named(items) == {items[i].s : i \in 1..Len(items)}

\* the value of the last entry of the map that names the field
LastNaming(items, name) ==
    items[CHOOSE i \in 1..Len(items) :
            items[i].s = name /\ \A j \in (i + 1)..Len(items) : items[j].s # name].e[1]

\* C1: if _override_from_dict raises for any entry of its map, every declared
\* field of the object has the value it had before the call.
C1_OverrideAllOrNothing ==
    [][(last'.op = "override" /\ ~last'.ok)
          => heap'[last'.o].d = heap[last'.o].d]_vars

\* C2, as stated: once freeze() has returned on an instance, every later
\* direct assignment and every override call on it raises, its field values
\* stay as they were, and == and to_dict stay callable.
C2_FrozenEveryOverrideRaises ==
    [][\A o \in 1..Len(heap) :
          heap[o].frozen =>
             /\ heap'[o].frozen
             /\ heap'[o].d = heap[o].d
             /\ (last'.op \in {"assign", "override"} /\ last'.o = o) => ~last'.ok]_vars

\* C2, amended: once freeze() has returned on an instance, every later direct
\* assignment and every override call with a non-empty map on it raises, an
\* override with an empty map returns without effect, the instance stays
\* frozen and its field values stay exactly as they were, so that == of the
\* instance with itself holds before and after every later call.
C2_FrozenMonotone ==
    [][\A o \in 1..Len(heap) :
          heap[o].frozen =>
             /\ heap'[o].frozen
             /\ heap'[o].d = heap[o].d
             /\ (last'.op = "assign" /\ last'.o = o) => ~last'.ok
             /\ (last'.op = "override" /\ last'.o = o /\ last'.items # <<>>) => ~last'.ok
             /\ (last'.op = "override" /\ last'.o = o /\ last'.items = <<>>) => last'.ok
             /\ eq(heap', o, heap', o)]_vars

\* a frozen instance has been offered an assignment and a non-empty override
C2_Witness ==
    /\ last.op = "override" /\ last.items # <<>> /\ ~last.ok
    /\ heap[last.o].frozen
    /\ heap[last.o].cls = "B"

\* C3: after freeze() returns on an object, the object and every params
\* object held in one of its fields (directly, through a union-typed field,
\* or as a tuple element) are frozen.
C3_FreezeReachesNested ==
    (last.op = "freeze" /\ last.ok) =>
        /\ heap[last.o].frozen
        /\ \A name \in DOMAIN heap[last.o].d :
              \A r \in RefsIn(heap[last.o].d[name]) : heap[r].frozen

\* the params objects held by the fields of object o
NestedOf(h, o) == UNION {RefsIn(h[o].d[name]) : name \in NameSet(h[o].cls)}

(***************************************************************************)
(* C4.  parametric/_base_params2.py: _override_from_dict on a frozen       *)
(* instance leaves the instance frozen, when the call returns and when it  *)
(* raises.                                                                 *)
(***************************************************************************)
C4_OverrideRestoresFrozen ==
    [][(last'.op = "override" /\ heap[last'.o].frozen) => heap'[last'.o].frozen]_vars

\* a call on a frozen B2 that has set x and then raised on bp
C4_Witness ==
    /\ last.op = "override" /\ ~last.ok /\ blocks = <<>>
    /\ heap[last.o].cls = "B2"
    /\ heap[last.o].frozen
    /\ heap[last.o].d["x"] = VFloat(3, 0)

(***************************************************************************)
(* C5.  The first statement of a  with Override(p):  block, when it is a   *)
(* direct assignment to a declared field of p or of a params object held   *)
(* by a field of p, succeeds; a direct assignment to p right after the     *)
(* last open block has ended raises.                                       *)
(***************************************************************************)
C5_OverrideBlockOpensNested ==
    [][(last'.op = "assign" /\ last'.key \in NameSet(heap[last'.o].cls)) =>
          /\ (last.op = "enter" /\ last'.o \in {last.o} \cup NestedOf(heap, last.o))
                => last'.ok
          /\ (last.op = "exit" /\ blocks = <<>> /\ last'.o = last.o)
                => ~last'.ok]_vars


\* C6: a successful override changes only the fields its map names, and each
\* named field ends with the converted value of the last entry naming it; a
\* constructed object holds the converted class default of every field that
\* has one.
C6_OverrideFrame ==
    [][/\ (last'.op = "override" /\ last'.ok) =>
            \A name \in DOMAIN heap[last'.o].d :
               LET now == heap'[last'.o].d[name]
               IN IF name \in Named(last'.items)
                  THEN LET r == convert(last'.mode,
                                        name_to_type_node(heap[last'.o].cls)[name],
                                        LastNaming(last'.items, name), heap)
                       IN /\ r.ok
                          /\ now.k = r.v.k
                          /\ PyEq(heap', now, r.h, r.v)
                  ELSE now = heap[last'.o].d[name]
       /\ (last'.op = "construct" /\ last'.ok) =>
            \A name \in DOMAIN heap'[last'.o].d :
               LET dflt == ClassDefault(heap'[last'.o].cls, name)
               IN IF dflt = VEmpty THEN heap'[last'.o].d[name] = VEmpty
                  ELSE /\ PyEq(heap', heap'[last'.o].d[name], heap', dflt)
                       /\ heap'[last'.o].d[name] = heap'[last'.o].defaults[name]]_vars

\* an override has converted the int 2 into the float field x of a B and has
\* left the other fields of the object alone
C6_Witness ==
    /\ last.op = "override" /\ last.ok /\ last.mode = PYTHON_OBJECT
    /\ Named(last.items) = {"x"}
    /\ heap[last.o].cls = "B"
    /\ heap[last.o].d["x"] = VFloat(1, 1)

RECURSIVE Plain(_)
Plain(v) ==
    IF v.k \in {"none", "bool", "int", "float", "str", "bytes", "path"} THEN TRUE
    ELSE IF v.k \in {"tuple", "list", "set"} THEN \A i \in 1..Len(v.e) : Plain(v.e[i])
    ELSE IF v.k = "dict"
        THEN \A i \in 1..Len(v.e) : Plain(KeyOf(v.e[i])) /\ Plain(ValueOf(v.e[i]))
    ELSE FALSE

C9_BadStreamRaises ==
    (last.op = "unpack" /\ last.key \in {"truncated", "tag"}) => ~cout.ok

(***************************************************************************)
(* C10 as stated.  from_python_object at a scalar node succeeds exactly    *)
(* when the value is of the type of the node, and returns it unchanged.    *)
(***************************************************************************)
C10_StrictScalar ==
    (last.op = "coerce" /\ tmode = PYTHON_OBJECT /\ tnode \in ScalarNodes) =>
        /\ tout.ok <=> tin.k = tnode.t
        /\ tout.ok => tout.v = tin


(***************************************************************************)
(* Properties of the type wranglers.                                       *)
(***************************************************************************)
\* C11: relaxed coercion of a number into the target type int never
\* truncates: a float with a fraction (1.5) offered to int is rejected with
\* an error, by wrangle_type and by process_field alike.
C11_NoTruncation ==
    (last.op \in {"wrangle_type", "process_field"} /\ tnode = int
        /\ tin.k = "float" /\ tin.x < 0) => ~tout.ok


RECURSIVE InstanceOf(_, _)
\* the value is already a value of the type: an instance of a base type, a
\* tuple whose elements are values of the element types, or a value of a
\* member of a union
InstanceOf(value, hint) ==
    CASE hint.t \in IMMUTABLE_BASE_TYPES -> IsInstance(value, hint.t)
      [] hint.t = "union" ->
            \E i \in 1..Len(hint.args) : InstanceOf(value, hint.args[i])
      [] hint.t = "tuple" ->
            /\ value.k = "tuple"
            /\ IF hint.args[Len(hint.args)] = Ellipsis
               THEN \A i \in 1..Len(value.e) : InstanceOf(value.e[i], hint.args[1])
               ELSE /\ Len(value.e) = Len(hint.args)
                    /\ \A i \in 1..Len(value.e) : InstanceOf(value.e[i], hint.args[i])
      [] OTHER -> FALSE

\* C12: wrangle_type on a union returns the input itself, uncoerced,
\* whenever the input is already a value of some member type, wherever that
\* member stands in the declaration.
C12_UnionPrefersUncoerced ==
    (last.op = "wrangle_type" /\ tnode.t = "union" /\ InstanceOf(tin, tnode)) =>
        /\ tout.ok
        /\ ~tout.is_coerced
        /\ tout.converted_value = tin

\* the members of the union, in declared order, whose own wrangle_type
\* succeeds on the value
Succeeding(value, inner_args) ==
    {i \in 1..Len(inner_args) : wrangle_type(value, inner_args[i]).ok}
\* some member takes the value without coercing it
Uncoerced(value, inner_args) ==
    \E i \in Succeeding(value, inner_args) :
        ~wrangle_type(value, inner_args[i]).is_coerced
FirstOf(S) == CHOOSE i \in S : \A j \in S : i <= j

\* C13: when no member of the union takes the value uncoerced, wrangle_type
\* returns, with is_coerced = true, the value of the first member in
\* declared order whose coercion succeeds; it raises only if every member
\* fails.
C13_UnionFirstCoercion ==
    (last.op = "wrangle_type" /\ tnode.t = "union"
        /\ ~Uncoerced(tin, tnode.args)) =>
        IF Succeeding(tin, tnode.args) = {} THEN ~tout.ok
        ELSE /\ tout.ok
             /\ tout.is_coerced
             /\ tout.converted_value =
                    wrangle_type(tin, tnode.args[FirstOf(Succeeding(tin, tnode.args))]).converted_value


(***************************************************************************)
(* Properties of parametric/_type_node.py.                                 *)
(***************************************************************************)
\* the members of a union that accept the value in the mode, by position
Accepting(mode, inner_args, value) ==
    {i \in 1..Len(inner_args) : convert(mode, inner_args[i], value, InitHeap).ok}
\* the accepting member that stands highest in the global precedence list
\* (the earlier declared of two members of the same node class)
Highest(S, inner_args) ==
    CHOOSE i \in S : \A j \in S :
        \/ precedence(inner_args[i].t) < precedence(inner_args[j].t)
        \/ precedence(inner_args[i].t) = precedence(inner_args[j].t) /\ i <= j

\* C14: in every mode a UnionNode returns the result of the accepting
\* member that is highest in the global precedence order, whatever the
\* declared order, and raises iff every member rejects; from text "1" on
\* str | int is the integer 1 and "1.5" on int | float the float 1.5.
C14_UnionPrecedence ==
    (last.op = "coerce" /\ tnode.t = "union") =>
        /\ tout.ok <=> Accepting(tmode, tnode.args, tin) # {}
        /\ tout.ok =>
              tout.v = convert(tmode,
                               tnode.args[Highest(Accepting(tmode, tnode.args, tin), tnode.args)],
                               tin, InitHeap).v
        /\ (tmode = STR /\ tnode = UnionNode(<<StrNode, IntNode>>) /\ tin = VStr(<<49>>))
              => tout.v = VInt(1)
        /\ (tmode = STR /\ tnode = UnionNode(<<IntNode, FloatNode>>)
                /\ tin = VStr(<<49, 46, 53>>))
              => tout.v = VFloat(3, -1)

\* "1" has been read from text by str | int
C14_Witness ==
    /\ last.op = "coerce" /\ tmode = STR /\ tout.ok
    /\ tnode = UnionNode(<<StrNode, IntNode>>)
    /\ tin = VStr(<<49>>)
    /\ tout.v = VInt(1)


\* C15: a tuple node of fixed arity n accepts a value only if the value has
\* exactly n elements, in every mode; a shorter or a longer value is
\* rejected.
C15_TupleArity ==
    (last.op = "coerce" /\ tnode.t = "tuple" /\ ~tnode.any /\ tout.ok) =>
        /\ Iterable(tin)
        /\ Len(Elements(tin)) = Len(tnode.args)

\* C16: an input that is no sequence (a plain string, a number, a bool or
\* None) is rejected by a tuple node in the modes python object, dumpable
\* and text; a string is never taken apart into its characters.
C16_TupleNeedsSequence ==
    (last.op = "coerce" /\ tnode.t = "tuple"
        /\ tmode \in {PYTHON_OBJECT, DUMPABLE, STR}
        /\ tin.k \in {"str", "int", "float", "bool", "none"}) => ~tout.ok


\* a union that holds both str and Path, or two composite (tuple) members
Ambiguous(hint) ==
    /\ hint.t = "union"
    /\ \/ \E i, j \in 1..Len(hint.args) : hint.args[i] = str /\ hint.args[j] = PathHint
       \/ \E i, j \in 1..Len(hint.args) :
             i # j /\ hint.args[i].t = "tuple" /\ hint.args[j].t = "tuple"

\* C17: a union that contains both str and Path, or two composite members,
\* is rejected by parse_typehint, when the type is declared, whatever value
\* is offered later.
C17_AmbiguousUnionRejected ==
    (last.op = "parse_typehint" /\ Ambiguous(tnode)) => ~tout.ok


(***************************************************************************)
(* Properties of the reports.                                              *)
(***************************************************************************)
\* C18: == between two params objects of different declared types is
\* false, even when the types declare the same field names with equal
\* values, and a params object is unequal to every value that is no params
\* object.
C18_EqNeedsSameType ==
    (last.op = "eq"
        /\ (last.value.k # "ref" \/ heap[last.value.n].cls # heap[last.o].cls)) =>
        cout.v = VBool(FALSE)


\* the value a name has in o differs from the value its class gives it
Differs(h, o, name) == ~PyEq(h, h[o].d[name], h, ClassDefault(h[o].cls, name))

\* the fields of object n that differ from the defaults of its class
Changed(h, n) == {name \in NameSet(h[n].cls) : Differs(h, n, name)}

\* the field outer of o holds a params object of which exactly the field
\* inner differs from its defaults, and no other field of o has changed
OnlyInnerChanged(h, o, outer, inner) ==
    /\ h[o].d[outer].k = "ref"
    /\ Changed(h, h[o].d[outer].n) = {inner}
    /\ \A name \in NameSet(h[o].cls) \ {outer} : ~Differs(h, o, name)

\* C19: after an override of only one inner field of a nested params
\* object the non-defaults report is {outer_field: {inner_field: new_value}}:
\* neither the whole nested object nor its unchanged inner fields.
C19_ReportOnlyInnerField ==
    last.op \in {"get_overrides_dict", "get_non_defaults"} =>
        \A outer \in NameSet(heap[last.o].cls) :
            \A inner \in (IF heap[last.o].d[outer].k = "ref"
                          THEN NameSet(heap[heap[last.o].d[outer].n].cls) ELSE {}) :
                OnlyInnerChanged(heap, last.o, outer, inner) =>
                    /\ cout.ok
                    /\ cout.v = VDict(<<VItem(outer,
                                    VDict(<<VItem(inner,
                                        heap[heap[last.o].d[outer].n].d[inner])>>))>>)

\* C20: the non-defaults report succeeds and holds a field name iff the
\* current value of the field differs from the value the type gives it by
\* default: it is empty for a fresh instance, lists exactly the overridden
\* fields, and reports a field declared without a default once it has been
\* supplied; a field that holds no params object is reported with its value.
C20_ReportIffDiffers ==
    last.op \in {"get_overrides_dict", "get_non_defaults"} =>
        /\ cout.ok
        /\ \A name \in NameSet(heap[last.o].cls) :
              /\ name \in Keys(cout.v) <=> Differs(heap, last.o, name)
              /\ (name \in Keys(cout.v) /\ RefsIn(heap[last.o].d[name]) = {})
                    => item_of(cout.v, name) = heap[last.o].d[name]

\* the params class a node takes a mapping for ("": none)
ParamsClassOf(node) ==
    IF node.t = "params" THEN node.cls
    ELSE IF node.t = "union" /\ \E i \in 1..Len(node.args) : node.args[i].t = "params"
        THEN node.args[CHOOSE i \in 1..Len(node.args) : node.args[i].t = "params"].cls
    ELSE ""

\* the mapping names a field the class does not declare, or gives a declared
\* field a value its node does not take in the dumpable mode
BadMapping(h, cls, items) ==
    \E k \in 1..Len(items) :
        \/ items[k].s \notin NameSet(cls)
        \/ ~convert(DUMPABLE, name_to_type_node(cls)[items[k].s], items[k].e[1], h).ok

\* object n is what cls() is after the mapping has been applied to it: the
\* named fields hold the converted values, the others the class defaults
IsDefaultWith(h, n, cls, items) ==
    /\ h[n].cls = cls
    /\ \A name \in NameSet(cls) :
          h[n].d[name] =
              IF name \in Named(items)
              THEN convert(DUMPABLE, name_to_type_node(cls)[name],
                           LastNaming(items, name), h).v
              ELSE ClassDefault(cls, name)

\* C21: a mapping given to a nested-object field in the dumpable mode makes a
\* new instance of the declared params type that is a default-constructed
\* instance with the mapping applied; the field then holds the new instance,
\* no object that existed before is modified (the nested object the field
\* held is replaced, not edited), and a mapping with an unknown key or an
\* inner value that cannot be coerced makes the whole call raise.
C21_MappingMakesNewInstance ==
    [][(last'.op = "override" /\ last'.mode = DUMPABLE /\ last'.items # <<>>
            /\ last'.items[1].s \in NameSet(heap[last'.o].cls)
            /\ last'.items[1].e[1].k = "dict"
            /\ ParamsClassOf(name_to_type_node(heap[last'.o].cls)[last'.items[1].s]) # "") =>
        LET o == last'.o
            name == last'.items[1].s
            mapping == last'.items[1].e[1].e
            cls == ParamsClassOf(name_to_type_node(heap[o].cls)[name])
        IN /\ BadMapping(heap, cls, mapping) => ~last'.ok
           /\ \A p \in 1..Len(heap) : p # o => heap'[p] = heap[p]
           /\ (last'.ok /\ name \notin Named(Tail(last'.items))) =>
                 /\ heap'[o].d[name].k = "ref"
                 /\ heap'[o].d[name].n > Len(heap)
                 /\ IsDefaultWith(heap', heap'[o].d[name].n, cls, mapping)]_vars

\* the mapping {"j": 7} has been given to the field bn of a C: the field holds
\* a new N with j = 7 and i = 1, and the N of the class body still has j = 2
C21_Witness ==
    /\ last.op = "override" /\ last.ok /\ last.mode = DUMPABLE
    /\ heap[last.o].cls = "C"
    /\ heap[last.o].d["bn"].n > 3
    /\ heap[heap[last.o].d["bn"].n].d = [i |-> VInt(1), j |-> VInt(7)]
    /\ heap[3].d = [i |-> VInt(1), j |-> VInt(2)]

\* the tokens of the two truth values: 1 true t yes y on, and
\* 0 -1 false f no n off
TrueWords == {<<49>>, <<116, 114, 117, 101>>, <<116>>, <<121, 101, 115>>, <<121>>,
              <<111, 110>>}
FalseWords == {<<48>>, <<45, 49>>, <<102, 97, 108, 115, 101>>, <<102>>, <<110, 111>>,
               <<110>>, <<111, 102, 102>>}

\* C22: BoolNode.from_str returns True exactly for the tokens 1, true, t,
\* yes, y, on in any letter case, False exactly for 0, -1, false, f, no, n,
\* off, and raises for every other string and for every value that is no
\* string.
C22_BoolTokensExact ==
    (last.op = "coerce" /\ tnode = BoolNode /\ tmode = STR) =>
        IF tin.k = "str" /\ lower(tin.c) \in TrueWords
        THEN tout.ok /\ tout.v = VBool(TRUE)
        ELSE IF tin.k = "str" /\ lower(tin.c) \in FalseWords
        THEN tout.ok /\ tout.v = VBool(FALSE)
        ELSE ~tout.ok

\* C22 amended: the string is compared with the tokens after its letters
\* have been lowered and the white space around it has been removed.
C22_BoolTokensStripped ==
    (last.op = "coerce" /\ tnode = BoolNode /\ tmode = STR) =>
        IF tin.k = "str" /\ rstrip(lstrip(lower(tin.c))) \in TrueWords
        THEN tout.ok /\ tout.v = VBool(TRUE)
        ELSE IF tin.k = "str" /\ rstrip(lstrip(lower(tin.c))) \in FalseWords
        THEN tout.ok /\ tout.v = VBool(FALSE)
        ELSE ~tout.ok

\* the string " Yes " has been parsed as a bool
C22_Witness ==
    /\ last.op = "coerce" /\ tnode = BoolNode /\ tmode = STR
    /\ tin = VStr(<<32, 89, 101, 115, 32>>)
    /\ tout.ok /\ tout.v = VBool(TRUE)

\* C23: the node parse_typehint makes of a tuple hint is any-length iff the
\* hint ends with the ellipsis; the node of a hint without ellipsis, such as
\* tuple[int], takes only tuples of as many elements as the hint declares.
C23_VariadicIffEllipsis ==
    (last.op = "parse_typehint" /\ tnode.t = "tuple" /\ tout.ok) =>
        /\ tout.node.any <=> (tnode.args[Len(tnode.args)].t = "ellipsis")
        /\ (tin.k = "tuple" /\ tnode.args[Len(tnode.args)].t # "ellipsis"
                /\ from_python_object(tout.node, tin, heap).ok)
              => Len(tin.e) = Len(tnode.args)

\* C24: pack_obj of a params object succeeds (the field values of the model
\* are all encodable) and writes the tag 0x0D, the length and the bytes of
\* the class name, and then the map of the declared fields that hold a value
\* and nothing else: no _is_frozen, _name_to_type_node, _default_values or
\* _inner_params_that_are_baseparam_class entry.
C24_PackWritesFieldsOnly ==
    (last.op = "pack" /\ cin.k = "ref") =>
        /\ last.ok
        /\ cstream = <<13>> \o pack_I(Len(encode(Chars(heap[cin.n].cls)).b))
                            \o encode(Chars(heap[cin.n].cls)).b
                            \o pack_obj(heap, VDict(field_items(heap, cin.n))).b

\* C25: a freeze() that raises leaves the frozen flag of every object as it
\* was before the call: no nested object stays frozen by a failed freeze().
C25_FailedFreezeChangesNothing ==
    [][(last'.op = "freeze" /\ ~last'.ok) =>
           \A p \in 1..Len(heap) : heap'[p].frozen = heap[p].frozen]_vars

RECURSIVE AllSet(_, _)
\* every declared field of the object, and of the params objects its fields
\* hold, has a value
AllSet(h, o) ==
    \A name \in NameSet(h[o].cls) :
        /\ h[o].d[name] # VEmpty
        /\ h[o].d[name].k = "ref" => AllSet(h, h[o].d[name].n)

\* C26: freeze() on an object whose declared fields, and those of its nested
\* params objects, are all set returns normally and leaves the object
\* frozen, whatever was frozen before: the object itself, one of its nested
\* objects, or what an earlier failed freeze() has left.
C26_FreezeSucceedsWhenAllSet ==
    [][(last'.op = "freeze" /\ AllSet(heap, last'.o)) =>
           /\ last'.ok
           /\ heap'[last'.o].frozen]_vars

RECURSIVE Observable(_, _)
\* what can be read through a value: the value itself and, for a params
\* object, its class, its frozen state and what can be read through each of
\* its fields
Observable(h, v) ==
    IF v.k = "ref"
    THEN [cls |-> h[v.n].cls, frozen |-> h[v.n].frozen,
          d |-> [name \in NameSet(h[v.n].cls) |-> Observable(h, h[v.n].d[name])]]
    ELSE IF v.k = "tuple" THEN [i \in 1..Len(v.e) |-> Observable(h, v.e[i])]
    ELSE v

\* C27: an assignment to, an override of or a freeze() of one params
\* instance changes no field value and no frozen state that can be read
\* through another instance of the same type, the nested objects that both
\* took from the same class default included.
C27_InstancesIsolated ==
    [][last'.op \in {"assign", "override", "freeze"} =>
           \A q \in 1..Len(heap) :
               (q # last'.o /\ heap[q].cls = heap[last'.o].cls) =>
                   Observable(heap', VRef(q)) = Observable(heap, VRef(q))]_vars

\* what get_defaults_dict returns, a deep copy of _default_values: for each
\* name with a recorded default, what can be read through the recorded value
get_defaults_dict(h, o) ==
    [name \in {n \in NameSet(h[o].cls) : HasDefault(h, o, n)} |->
        Observable(h, h[o].defaults[name])]

\* C28: once an object is constructed, no assignment and no override, on the
\* object or on a params object nested in it, changes what get_defaults_dict
\* returns: the defaults stay those recorded at construction.
C28_DefaultsNeverChange ==
    [][last'.op \in {"assign", "override"} =>
           \A q \in 1..Len(heap) :
               \A name \in DOMAIN get_defaults_dict(heap, q) :
                   /\ name \in DOMAIN get_defaults_dict(heap', q)
                   /\ get_defaults_dict(heap', q)[name] = get_defaults_dict(heap, q)[name]]_vars

RECURSIVE Conforms(_, _, _)
\* the value is a canonical value of the type of the node: a value of the
\* scalar type, a params object of the declared class, a tuple whose
\* elements conform to the inner nodes, a value of one member of a union
Conforms(h, node, v) ==
    CASE node.t = "params" -> v.k = "ref" /\ h[v.n].cls = node.cls
      [] node.t = "tuple" ->
            /\ v.k = "tuple"
            /\ node.any \/ Len(v.e) = Len(node.args)
            /\ \A i \in 1..Len(v.e) :
                  Conforms(h, node.args[IF node.any THEN 1 ELSE i], v.e[i])
      [] node.t = "union" -> \E i \in 1..Len(node.args) : Conforms(h, node.args[i], v)
      [] OTHER -> IsInstance(v, node.t)

\* C29: in every state after construction, whatever assignments, overrides
\* and freeze calls have run, every declared field that is not empty holds a
\* canonical value of its declared type.
C29_FieldsConform ==
    \A o \in Objects :
        \A name \in NameSet(heap[o].cls) :
            heap[o].d[name] # VEmpty =>
                Conforms(heap, name_to_type_node(heap[o].cls)[name], heap[o].d[name])

\* C30: an instance with an open Override block is assignable: neither the
\* end of an inner block on the same instance nor a call of its
\* override_from_dict freezes it while an outer block is still open.
C30_OverrideBlocksNest ==
    \A i \in 1..Len(blocks) : ~heap[blocks[i]].frozen

====
